---------------------------- MODULE Spec2Model ----------------------------
(***************************************************************************)
(* Model of the frame processing pipeline of sinner:                       *)
(*   - the hybrid memory/disk frame buffer                                 *)
(*       (sinner/models/framebuffer/FrameMemoryBuffer.py on top of         *)
(*        sinner/models/framebuffer/FrameDirectoryBuffer.py),              *)
(*   - the server scheduling loop                                          *)
(*       (sinner/server/FrameProcessingServer.py, _process_frames),        *)
(*   - the requests that change the server's state                         *)
(*       (sinner/server/FrameProcessingServer.py, _handle_request),        *)
(*   - the request/reply loop of the transport                             *)
(*       (sinner/server/api/ZMQServerAPI.py, _message_handler) and the     *)
(*       client's send_request (sinner/server/api/ZMQClientAPI.py).        *)
(* The parts have disjoint state; each has its own specifications over     *)
(* the same variables: Spec (buffer), SpecScheduler, SpecWorkers,          *)
(* SpecEndToEnd and SpecServer (server), SpecTransport and SpecClient      *)
(* (transport).                                                            *)
(***************************************************************************)
EXTENDS Integers, FiniteSets, Sequences, TLC

(***************************************************************************)
(* Bounds of the model.                                                    *)
(***************************************************************************)
\* frame indices handed to the buffer are 0..MaxIndex
MaxIndex == 1
\* a frame's size in bytes (frame.frame.nbytes) is 1..MaxFrameSize
MaxFrameSize == 2
\* the configured memory limit (buffer_size_bytes) is 0..MaxBufferSize
MaxBufferSize == 2
\* at most MaxPending disk writes of one index wait in the executor
MaxPending == 1

\* the buffer is loaded with the source/target pairs 1..MaxPairs
MaxPairs == 2
\* the threads that call the index methods of the buffer are 1..MaxIndexThreads
MaxIndexThreads == 2
\* the list objects alive at a time are among 1..MaxLists
MaxLists == 4
\* the player's buffer looks up the frames 1..MaxLookupIndex
MaxLookupIndex == 3
\* the threads that construct image writers are 1..MaxConstructors
MaxConstructors == 2
\* every thread constructs MaxCalls writers
MaxCalls == 2

\* the threads that call the buffer at the same time
MaxLockThreads == 3

\* the scheduling loop handles the frames 0..MaxEndFrame (end_frame)
MaxEndFrame == 2
\* execution_threads is 1..MaxThreads
MaxThreads == 2
\* the average frame skip, counted in halves of a frame, is 0..MaxSkipHalves
MaxSkipHalves == 2
\* processing_delta is raised up to MaxDelta
MaxDelta == 2
\* the source plays 1..MaxFps frames per second
MaxFps == 3
\* the source path, the target path and the quality each take a value of
\* 0..MaxSetting
MaxSetting == 1
\* the server starts MaxLoopThreads threads for its scheduling loop
MaxLoopThreads == 3
\* a player starts MaxPlaybackThreads playback threads
MaxPlaybackThreads == 3
\* the server publishes the notifications 1..MaxNotifications
MaxNotifications == 3
\* poll and recv of the subscription socket raise MaxListenerErrors times
MaxListenerErrors == 2
\* the clients send MaxRequests requests
MaxRequests == 3
\* the failures of recv_multipart in the wrong socket state are counted up to
\* MaxZmqErrors
MaxZmqErrors == 2
\* the threads of one client that call send_request are 1..MaxCallers
MaxCallers == 2

FrameIndices == 0..MaxIndex
FrameSizes == 1..MaxFrameSize
\* a lookup may ask for one index past the last one that can be stored
RequestIndices == 0..(MaxIndex + 1)

VARIABLES
    \* ---- FrameMemoryBuffer / FrameDirectoryBuffer
    buffer_size_bytes,          \* _buffer_size_bytes
    memory_buffer,              \* _memory_buffer: index -> frame (its nbytes)
    frame_sizes,                \* _frame_sizes: index -> bytes
    current_buffer_size_bytes,  \* _current_buffer_size_bytes
    indices,                    \* _indices: the list is read by membership tests
                                \* only and cleared as a whole; its set of members
    loaded,                     \* _loaded
    miss,                       \* _miss
    files,                      \* frame files in the session's directory
    pending_writes,             \* executor queue: index -> number of queued writes
    add_pc, add_arg,            \* the thread inside add_frame
    get_pc, get_arg,            \* the thread inside get_frame
    get_result,                 \* what the last call of get_frame returned
    \* ---- history of the buffer (read by the properties only)
    added,                      \* indices handed to add_frame / add_index so far
    session_added,           \* indices add_frame stored on the loaded buffer
                                \* since the last load / flush
    \* ---- the buffer over several source/target pairs
    session,                    \* the pair of _source_name and _target_name
                                \* the buffer is loaded with, 0 for none
    session_memory,             \* _memory_buffer: index -> the pair whose frame
                                \* it is
    session_indices,            \* _indices
    session_files,              \* pair -> the frame files of its directory:
                                \* index -> the pair whose frame it is
    session_writes,             \* the writes that wait in the executor
    \* ---- history of the pairs (read by the properties only)
    session_history,            \* pair -> the indices add_frame was called
                                \* with while the pair was loaded
    \* ---- the index list as an object
    heap,                       \* list object -> its content
    indices_ref,                \* the list object _indices refers to
    indices_lock,               \* the thread that holds _indices_lock, 0 for
                                \* none
    index_pc,                   \* thread -> the method it is inside of, with
                                \* its argument
    held,                       \* thread -> the list object get_indices
                                \* handed to it, 0 for none
    \* ---- Singleton: the metaclass of the image writers
    instances,                  \* Singleton._instances: class -> its object,
                                \* 0 for a class that is not a key
    objects_created,            \* class -> the objects made of it so far
    call_pc,                    \* thread -> its position in __call__ and the
                                \* class it constructs
    rlock_owner,                \* lock -> the thread that holds it, or Nobody
    rlock_count,                \* lock -> how many times its owner holds it
    caller_op,                  \* thread -> the buffer method it is in
    caller_pc,                  \* thread -> its position in the method
    caller_wait,                \* thread -> its state at _buffer_condition
    call_results                \* thread -> the <<class, object>> pairs its
                                \* calls returned
    ,
    \* ---- FrameProcessingServer._process_frames
    execution_threads,          \* execution_threads
    event_processing,           \* _event_processing.is_set()
    event_rewind,               \* _event_rewind: is it set, and its tag
    loop_pc,                    \* the position of the _process_frames thread
    next_frame,                 \* next_frame
    processing,                 \* processing: appended to only when absent
    futures,                    \* futures: the frames of the futures, in order
    future_state,               \* frame -> state of the future submitted for it
    waiting_for,                \* the future the loop waits for in result()
    processing_delta,           \* processing_delta
    average_frame_skip,         \* _average_frame_skip.get_average(), in halves
    timeline_frames,            \* the indices TimeLine.has_index answers true for
    last_added_index,           \* TimeLine.last_added_index
    last_requested_index,       \* TimeLine.last_requested_index
    current_frame_miss,         \* TimeLine.current_frame_miss
    fps,                        \* frame_handler.fps
    processing_fps,             \* _processing_fps
    skip_sum, skip_count,       \* the samples held by _average_frame_skip, in
                                \* units of 1 / FastProcessingFps of a frame
    \* ---- FrameProcessingServer: what the requests set, what it publishes
    source_path,                \* _source_path
    target_path,                \* _target_path
    scale_quality,              \* _scale_quality
    notified,                   \* the frames an NTF_FRAME was published for
    \* ---- FrameProcessingServer: the threads started for _process_frames
    process_frames_thread,      \* _process_frames_thread: its number, 0 for None
    loop_threads,               \* thread -> its position in _process_frames and
                                \* its local next_frame
    loops_started,              \* the threads started so far
    \* ---- history of the loop threads (read by the properties only)
    told_to_stop,               \* the threads that were running at a stop
    resumed                     \* those of them that went on after the stop
    ,
    \* ---- ZMQServerAPI._message_handler and its REP socket
    requests_sent,              \* the requests the clients have sent so far
    request_queue,              \* requests waiting at the reply socket
    server_pc,                  \* the position of _message_handler
    current_request,            \* the request taken by recv_multipart
    response,                   \* the response _handle_request returned
    responses_sent,             \* request -> responses sent back for it
    reply_pending,              \* the REP socket owes a reply before a recv
    zmq_errors,                 \* ZMQError caught by the loop so far
    response_fields,            \* the fields of the response next to its status
    \* ---- ZMQClientAPI.send_request and its REQ socket
    lock,                       \* _lock: the thread that holds it, 0 for none
    client_pc,                  \* the position of the thread in send_request
    client_request,             \* the request send_request was called with
    req_socket,                 \* _req_socket: which socket it is, by number
    returned,                   \* request -> what send_request returned for it
    \* ---- history of the request channel (read by the properties only)
    request_socket,             \* request -> the socket it was sent on
    replies_taken,              \* the requests whose reply a socket delivered
    request_log,                \* the requests sent so far, in order
    answers,                    \* request -> the response sent back for it
    \* ---- RemoteProcessingModel: the player
    event_playback,             \* _event_playback.is_set()
    show_frames_thread,         \* _show_frames_thread: its number, 0 for None
    show_pc,                    \* thread -> its position in _show_frames
    gui_pc,                     \* the position of the thread that calls
                                \* player_start and player_stop
    cursor,                     \* TimeLine.last_requested_index of the player
    last_command,               \* the last of ProcessingClient.start / stop
    threads_started,            \* the playback threads started so far
    \* ---- history of the player (read by the properties only)
    eof,                        \* thread -> it caught EOFError
    after_eof,                  \* thread -> what has happened since it did
    \* ---- ZMQClientAPI: the notification listener
    notification_running,       \* _notification_running
    sub_socket,                 \* _sub_socket: "none" or "open"
    listener_pc,                \* the position of _notification_listener
    sub_queue,                  \* the notifications waiting at the socket
    published,                  \* the notifications published so far
    handled,                    \* notification -> what the listener did with it
    listener_errors             \* the times poll or recv raised

bufferVars == <<buffer_size_bytes, memory_buffer, frame_sizes,
                current_buffer_size_bytes, indices, loaded, miss, files,
                pending_writes, add_pc, add_arg, get_pc, get_arg, get_result,
                added, session_added,
                session, session_memory, session_indices, session_files,
                session_writes, session_history,
                heap, indices_ref, indices_lock, index_pc, held,
                instances, objects_created, call_pc, call_results,
                rlock_owner, rlock_count, caller_op, caller_pc, caller_wait>>

\* the three locks of the buffer and the threads at them
lockVars == <<rlock_owner, rlock_count, caller_op, caller_pc, caller_wait>>

\* the image writer classes and their one object
writerVars == <<instances, objects_created, call_pc, call_results>>

\* the index list as an object
indexVars == <<heap, indices_ref, indices_lock, index_pc, held>>

\* the buffer over several source/target pairs
sessionVars == <<session, session_memory, session_indices, session_files,
                 session_writes, session_history>>

schedulerVars == <<execution_threads, event_processing, event_rewind, loop_pc,
                   next_frame, processing, futures, future_state, waiting_for,
                   processing_delta, average_frame_skip, timeline_frames,
                   last_added_index, last_requested_index, current_frame_miss,
                   fps, processing_fps, skip_sum, skip_count,
                   source_path, target_path, scale_quality, notified,
                   process_frames_thread, loop_threads, loops_started,
                   told_to_stop, resumed>>

\* what the scheduling loop measures of its own speed
rateVars == <<fps, processing_fps, skip_sum, skip_count>>

\* what the requests set and what the server publishes
settingVars == <<source_path, target_path, scale_quality>>
\* the threads started for the scheduling loop
threadVars == <<process_frames_thread, loop_threads, loops_started,
                told_to_stop, resumed>>
serverVars == <<settingVars, notified, threadVars>>

transportVars == <<requests_sent, request_queue, server_pc, current_request,
                   response, responses_sent, reply_pending, zmq_errors,
                   lock, client_pc, client_request, req_socket, returned,
                   request_socket, replies_taken,
                   response_fields, request_log, answers,
                   event_playback, show_frames_thread, show_pc, gui_pc,
                   cursor, last_command, threads_started, eof, after_eof,
                   notification_running, sub_socket, listener_pc, sub_queue,
                   published, handled, listener_errors>>

\* the notification listener of the client
listenerVars == <<notification_running, sub_socket, listener_pc, sub_queue,
                  published, handled, listener_errors>>

\* the request channel: the server's loop and the client's send_request
channelVars == <<requests_sent, request_queue, server_pc, current_request,
                 response, responses_sent, reply_pending, zmq_errors,
                 lock, client_pc, client_request, req_socket, returned,
                 request_socket, replies_taken>>

\* the player
playerVars == <<event_playback, show_frames_thread, show_pc, gui_pc, cursor,
                last_command, threads_started, eof, after_eof>>

\* the fields of the responses and the history of requests and responses
dispatchVars == <<response_fields, request_log, answers>>

\* the client's side of the request channel
clientVars == <<lock, client_pc, client_request, req_socket, returned,
                request_socket, replies_taken, playerVars, listenerVars>>

vars == <<bufferVars, schedulerVars, transportVars>>

(***************************************************************************)
(* Dictionaries and lists.                                                 *)
(***************************************************************************)
EmptyDict == [k \in {} |-> 0]

DictPut(d, k, v) == [x \in (DOMAIN d) \cup {k} |-> IF x = k THEN v ELSE d[x]]

DictPop(d, k) == [x \in (DOMAIN d) \ {k} |-> d[x]]

SetMax(S) == CHOOSE x \in S : \A y \in S : y <= x

\* what get_frame hands back: None, or a NumberedFrame with its index; empty
\* marks a frame object whose pixel data is None
None == [found |-> FALSE, index |-> 0, empty |-> FALSE]

\* no call of add_frame is in progress
NoFrame == [index |-> 0, size |-> 1]

NumberedFrame(i) == [found |-> TRUE, index |-> i, empty |-> FALSE]

EmptyFrame(i) == [found |-> TRUE, index |-> i, empty |-> TRUE]

(***************************************************************************)
(* FrameDirectoryBuffer                                                    *)
(***************************************************************************)
\* FrameDirectoryBuffer.has_index
DirHasIndex(index) == index \in indices

\* FrameMemoryBuffer.has_index: memory first, then the index list
HasIndex(index) == index \in DOMAIN memory_buffer \/ DirHasIndex(index)

\* FrameDirectoryBuffer.get_indices
GetIndices == indices

\* a scan that takes any listed frame file, whatever its number
PreviousNumbersAnywhere(index) ==
    {p \in 1..(MaxIndex + 1) : DirHasIndex(p) /\ p \in files}

\* the downward scan of FrameDirectoryBuffer.get_frame:
\* range(index - 1, 0, -1), has_index(previous_number) and path_exists(file)
PreviousNumbers(index) ==
    {p \in 1..(index - 1) : DirHasIndex(p) /\ p \in files}

\* FrameDirectoryBuffer.get_frame: the frame returned; readRaises tells whether
\* read_from_image raises for a file that is not there (or hands back None)
DirGetFrameResult(index, return_previous, readRaises) ==
    IF ~loaded THEN None
    ELSE IF DirHasIndex(index)
         THEN IF index \in files THEN NumberedFrame(index)
              ELSE IF readRaises THEN None ELSE EmptyFrame(index)
    ELSE IF return_previous /\ PreviousNumbers(index) # {}
         THEN NumberedFrame(SetMax(PreviousNumbers(index)))
    ELSE None

\* a lookup that records the miss of a substitute only
DirGetFrameMissOfSubstitute(index, return_previous) ==
    IF ~loaded \/ DirHasIndex(index) THEN miss
    ELSE IF return_previous /\ PreviousNumbers(index) # {}
         THEN index - SetMax(PreviousNumbers(index))
    ELSE miss

\* FrameDirectoryBuffer.get_frame: the value _miss has afterwards
DirGetFrameMiss(index, return_previous) ==
    IF ~loaded THEN miss
    ELSE IF DirHasIndex(index) THEN 0
    ELSE IF return_previous /\ PreviousNumbers(index) # {}
         THEN index - SetMax(PreviousNumbers(index))
    ELSE miss

(***************************************************************************)
(* FrameMemoryBuffer.add_frame                                             *)
(***************************************************************************)
\* a wait loop that lets every frame in
BufferNeverFull(frame_size) == FALSE

\* the condition of the wait loop
BufferFull(frame_size) ==
    current_buffer_size_bytes + frame_size > buffer_size_bytes

\* an add_frame that leaves the listing of the index to the disk writer
AddToIndicesDeferred(index) == indices

\* the index list after add_frame's "Add to indices" block
AddToIndices(index) ==
    IF index \in indices THEN indices ELSE indices \cup {index}

\* the body of add_frame under the buffer lock once the frame fits: the frame
\* goes to memory; an unloaded buffer returns at once, a loaded one lists the
\* index and goes on to submit the disk write
StoreFrame(frame) ==
    /\ memory_buffer' = DictPut(memory_buffer, frame.index, frame.size)
    /\ frame_sizes' = DictPut(frame_sizes, frame.index, frame.size)
    /\ current_buffer_size_bytes' = current_buffer_size_bytes + frame.size
    /\ added' = added \cup {frame.index}
    /\ IF ~loaded
       THEN /\ add_pc' = "idle"
            /\ add_arg' = NoFrame
            /\ indices' = indices
            /\ session_added' = session_added
       ELSE /\ add_pc' = "submit"
            /\ add_arg' = frame
            /\ indices' = AddToIndices(frame.index)
            /\ session_added' = session_added \cup {frame.index}

\* add_frame is called and takes the buffer lock: it waits when the frame
\* does not fit, and stores it otherwise
AddFrameCall(index, size) ==
    /\ add_pc = "idle"
    /\ IF BufferFull(size)
       THEN /\ add_pc' = "wait"
            /\ add_arg' = [index |-> index, size |-> size]
            /\ UNCHANGED <<memory_buffer, frame_sizes, current_buffer_size_bytes,
                           added, indices, session_added>>
       ELSE StoreFrame([index |-> index, size |-> size])
    /\ UNCHANGED <<buffer_size_bytes, loaded, miss, files, pending_writes,
                   get_pc, get_arg, get_result>>
    /\ UNCHANGED <<schedulerVars, transportVars, sessionVars,
                   indexVars, writerVars, lockVars>>

\* a notified waiter takes the lock again and tests the loop condition again
AddFrameWake ==
    /\ add_pc = "woken"
    /\ IF BufferFull(add_arg.size)
       THEN /\ add_pc' = "wait"
            /\ UNCHANGED <<memory_buffer, frame_sizes, current_buffer_size_bytes,
                           added, indices, add_arg, session_added>>
       ELSE StoreFrame(add_arg)
    /\ UNCHANGED <<buffer_size_bytes, loaded, miss, files, pending_writes,
                   get_pc, get_arg, get_result>>
    /\ UNCHANGED <<schedulerVars, transportVars, sessionVars,
                   indexVars, writerVars, lockVars>>

\* an add_frame that returns without handing the frame to the executor
SubmitWriteSkipped(index) == pending_writes

\* the executor's queue after submit(self._save_frame_to_disk, frame)
SubmitWrite(index) ==
    [pending_writes EXCEPT ![index] = @ + 1]

\* the write status is marked False (it is read by get_frame only to decide on
\* a sleep), the disk write is submitted, and add_frame returns
AddFrameSubmit ==
    /\ add_pc = "submit"
    /\ pending_writes[add_arg.index] < MaxPending
    /\ add_pc' = "idle"
    /\ add_arg' = NoFrame
    /\ pending_writes' = SubmitWrite(add_arg.index)
    /\ UNCHANGED <<buffer_size_bytes, memory_buffer, frame_sizes,
                   current_buffer_size_bytes, indices, loaded, miss, files,
                   get_pc, get_arg, get_result, added, session_added>>
    /\ UNCHANGED <<schedulerVars, transportVars, sessionVars,
                   indexVars, writerVars, lockVars>>

\* threading.Condition.notify_all on the buffer condition
NotifyAll == IF add_pc = "wait" THEN "woken" ELSE add_pc

(***************************************************************************)
(* FrameMemoryBuffer._save_frame_to_disk, run by the disk write executor   *)
(***************************************************************************)
\* the session directory after a successful write_to_image: the path is
\* resolved when the write runs, so that a write that runs after flush() lands
\* outside the directory of the session
WriteToImage(index) == IF loaded THEN files \cup {index} ELSE files

\* write_to_image succeeded
SaveFrameToDisk(index) ==
    /\ pending_writes[index] > 0
    /\ pending_writes' = [pending_writes EXCEPT ![index] = @ - 1]
    /\ files' = WriteToImage(index)
    /\ UNCHANGED <<buffer_size_bytes, memory_buffer, frame_sizes,
                   current_buffer_size_bytes, indices, loaded, miss, add_pc,
                   add_arg, get_pc, get_arg, get_result, added, session_added>>
    /\ UNCHANGED <<schedulerVars, transportVars, sessionVars,
                   indexVars, writerVars, lockVars>>

\* write_to_image returned False or raised: logged, no file, nothing raised to
\* anybody
SaveFrameToDiskFailed(index) ==
    /\ pending_writes[index] > 0
    /\ pending_writes' = [pending_writes EXCEPT ![index] = @ - 1]
    /\ UNCHANGED <<buffer_size_bytes, memory_buffer, frame_sizes,
                   current_buffer_size_bytes, indices, loaded, miss, files,
                   add_pc, add_arg, get_pc, get_arg, get_result, added,
                   session_added>>
    /\ UNCHANGED <<schedulerVars, transportVars, sessionVars,
                   indexVars, writerVars, lockVars>>

(***************************************************************************)
(* FrameMemoryBuffer.get_frame                                             *)
(***************************************************************************)
\* no call of get_frame is in progress
NoRequest == [index |-> 0, return_previous |-> TRUE]

\* what a call of get_frame(requested, ...) handed back
Returned(requested, frame) == [requested |-> requested, frame |-> frame]

\* get_frame is called; the memory lookup under the buffer lock: a hit pops the
\* frame, resets the miss, notifies the waiters and returns; a miss goes on to
\* the disk
GetFrameCall(index, return_previous) ==
    /\ get_pc = "idle"
    /\ IF index \in DOMAIN memory_buffer
       THEN /\ memory_buffer' = DictPop(memory_buffer, index)
            /\ frame_sizes' = DictPop(frame_sizes, index)
            /\ current_buffer_size_bytes' =
                   current_buffer_size_bytes - frame_sizes[index]
            /\ miss' = 0
            /\ add_pc' = NotifyAll
            /\ get_result' = Returned(index, NumberedFrame(index))
            /\ UNCHANGED <<get_pc, get_arg>>
       ELSE /\ get_pc' = "disk"
            /\ get_arg' = [index |-> index, return_previous |-> return_previous]
            /\ get_result' = Returned(0, None)
            /\ UNCHANGED <<memory_buffer, frame_sizes, current_buffer_size_bytes,
                           miss, add_pc>>
    /\ UNCHANGED <<buffer_size_bytes, indices, loaded, files, pending_writes,
                   add_arg, added, session_added>>
    /\ UNCHANGED <<schedulerVars, transportVars, sessionVars,
                   indexVars, writerVars, lockVars>>

\* not in memory: the write status is read (a pending write only delays the
\* call by a sleep), then the lookup of FrameDirectoryBuffer answers
\* the call did not return: Python raised TypeError while binding the arguments
TypeErrorRaised == [found |-> FALSE, index |-> 0, empty |-> FALSE,
                    raised |-> TRUE]

\* get_frame(index, remove_earlier_frames=True): get_frame has the parameters
\* index and return_previous only, so the call raises TypeError before the
\* body runs; nothing is popped, nothing is evicted, no waiter is notified
GetFrameRemoveEarlier(index) ==
    /\ get_pc = "idle"
    /\ get_result' = Returned(index, TypeErrorRaised)
    /\ UNCHANGED <<buffer_size_bytes, memory_buffer, frame_sizes,
                   current_buffer_size_bytes, indices, loaded, miss, files,
                   pending_writes, add_pc, add_arg, get_pc, get_arg, added,
                   session_added>>
    /\ UNCHANGED <<schedulerVars, transportVars, sessionVars,
                   indexVars, writerVars, lockVars>>

GetFrameDisk ==
    /\ get_pc = "disk"
    /\ get_pc' = "idle"
    /\ \E readRaises \in BOOLEAN :
           get_result' = Returned(get_arg.index,
                                  DirGetFrameResult(get_arg.index,
                                                    get_arg.return_previous,
                                                    readRaises))
    /\ miss' = DirGetFrameMiss(get_arg.index, get_arg.return_previous)
    /\ get_arg' = NoRequest
    /\ UNCHANGED <<buffer_size_bytes, memory_buffer, frame_sizes,
                   current_buffer_size_bytes, indices, loaded, files,
                   pending_writes, add_pc, add_arg, added, session_added>>
    /\ UNCHANGED <<schedulerVars, transportVars, sessionVars,
                   indexVars, writerVars, lockVars>>

(***************************************************************************)
(* FrameDirectoryBuffer.add_index                                          *)
(***************************************************************************)
AddIndex(index) ==
    /\ indices' = indices \cup {index}
    /\ added' = added \cup {index}
    /\ UNCHANGED <<buffer_size_bytes, memory_buffer, frame_sizes,
                   current_buffer_size_bytes, loaded, miss, files,
                   pending_writes, add_pc, add_arg, get_pc, get_arg, get_result,
                   session_added>>
    /\ UNCHANGED <<schedulerVars, transportVars, sessionVars,
                   indexVars, writerVars, lockVars>>

(***************************************************************************)
(* flush and load                                                          *)
(***************************************************************************)
\* FrameMemoryBuffer.flush: FrameDirectoryBuffer.flush forgets the session
\* (the files stay where they are), then the memory buffer is cleared and the
\* waiters are notified
\* a flush that clears the memory and leaves the disk buffer as it is
FlushMemoryOnly ==
    /\ memory_buffer' = EmptyDict
    /\ frame_sizes' = EmptyDict
    /\ current_buffer_size_bytes' = 0
    /\ add_pc' = NotifyAll
    /\ UNCHANGED <<indices, loaded, session_added>>
    /\ UNCHANGED <<buffer_size_bytes, miss, files, pending_writes, add_arg,
                   get_pc, get_arg, get_result, added>>
    /\ UNCHANGED <<schedulerVars, transportVars, sessionVars,
                   indexVars, writerVars, lockVars>>

Flush ==
    /\ indices' = {}
    /\ loaded' = FALSE
    /\ memory_buffer' = EmptyDict
    /\ frame_sizes' = EmptyDict
    /\ current_buffer_size_bytes' = 0
    /\ add_pc' = NotifyAll
    /\ session_added' = {}
    /\ UNCHANGED <<buffer_size_bytes, miss, files, pending_writes, add_arg,
                   get_pc, get_arg, get_result, added>>
    /\ UNCHANGED <<schedulerVars, transportVars, sessionVars,
                   indexVars, writerVars, lockVars>>

\* FrameMemoryBuffer.init_indices: the frame files of the directory, then the
\* indices held in memory that the list does not hold yet
InitIndices(memory) == files \cup DOMAIN memory

\* FrameMemoryBuffer.load: the memory buffer is cleared (nobody is notified),
\* then FrameDirectoryBuffer.load sets the names, reads the indices from the
\* directory and marks the buffer loaded
Load ==
    /\ memory_buffer' = EmptyDict
    /\ frame_sizes' = EmptyDict
    /\ current_buffer_size_bytes' = 0
    /\ indices' = InitIndices(memory_buffer')
    /\ loaded' = TRUE
    /\ session_added' = {}
    /\ UNCHANGED <<buffer_size_bytes, miss, files, pending_writes, add_pc,
                   add_arg, get_pc, get_arg, get_result, added>>
    /\ UNCHANGED <<schedulerVars, transportVars, sessionVars,
                   indexVars, writerVars, lockVars>>

(***************************************************************************)
(* The index list of FrameDirectoryBuffer as a list object: _indices is a   *)
(* reference to it, the methods work on it inside "with _indices_lock",    *)
(* get_indices hands a list object to its caller, who may change it        *)
(***************************************************************************)
IndexThreads == 1..MaxIndexThreads
Lists == 1..MaxLists

\* no thread holds the lock, no list object is held
Nobody == 0

\* the thread is in none of the methods
Outside == [op |-> "none", arg |-> 0]

InitIndexList ==
    /\ heap = [l \in Lists |-> {}]
    /\ indices_ref = 1
    /\ indices_lock = Nobody
    /\ index_pc = [t \in IndexThreads |-> Outside]
    /\ held = [t \in IndexThreads |-> Nobody]

\* the list objects somebody refers to
Referenced(ref, hd) ==
    ({ref} \cup {hd[t] : t \in IndexThreads}) \ {Nobody}

\* a new list object
NewList == CHOOSE l \in Lists :
               /\ l \notin Referenced(indices_ref, held)
               /\ \A m \in Lists :
                      m \notin Referenced(indices_ref, held) => l <= m

\* the heap once the list objects nobody refers to are gone
Collected(h, ref, hd) ==
    [l \in Lists |-> IF l \in Referenced(ref, hd) THEN h[l] ELSE {}]

\* FrameDirectoryBuffer.has_index
ListHasIndex(index) == index \in heap[indices_ref]

\* "with self._indices_lock:" of init_indices, flush, add_frame, add_index and
\* get_indices: the thread waits until no other thread holds the lock
IndicesLockAcquire(t, op, arg) ==
    /\ index_pc[t] = Outside
    /\ indices_lock = Nobody
    /\ indices_lock' = t
    /\ index_pc' = [index_pc EXCEPT ![t] = [op |-> op, arg |-> arg]]
    /\ UNCHANGED <<heap, indices_ref, held>>
    /\ UNCHANGED <<buffer_size_bytes, memory_buffer, frame_sizes,
                   current_buffer_size_bytes, indices, loaded, miss, files,
                   pending_writes, add_pc, add_arg, get_pc, get_arg, get_result,
                   added, session_added>>
    /\ UNCHANGED <<schedulerVars, transportVars, sessionVars, writerVars,
                   lockVars>>

\* init_indices inside the lock: _indices = [] and one append for every frame
\* file of the directory
InitIndicesLocked(t, scanned) ==
    /\ index_pc[t].op = "init_indices"
    /\ indices_ref' = NewList
    /\ heap' = Collected([heap EXCEPT ![NewList] = scanned], indices_ref', held)
    /\ indices_lock' = Nobody
    /\ index_pc' = [index_pc EXCEPT ![t] = Outside]
    /\ UNCHANGED held
    /\ UNCHANGED <<buffer_size_bytes, memory_buffer, frame_sizes,
                   current_buffer_size_bytes, indices, loaded, miss, files,
                   pending_writes, add_pc, add_arg, get_pc, get_arg, get_result,
                   added, session_added>>
    /\ UNCHANGED <<schedulerVars, transportVars, sessionVars, writerVars,
                   lockVars>>

\* flush inside the lock: _indices = []
FlushLocked(t) ==
    /\ index_pc[t].op = "flush"
    /\ indices_ref' = NewList
    /\ heap' = Collected([heap EXCEPT ![NewList] = {}], indices_ref', held)
    /\ indices_lock' = Nobody
    /\ index_pc' = [index_pc EXCEPT ![t] = Outside]
    /\ UNCHANGED held
    /\ UNCHANGED <<buffer_size_bytes, memory_buffer, frame_sizes,
                   current_buffer_size_bytes, indices, loaded, miss, files,
                   pending_writes, add_pc, add_arg, get_pc, get_arg, get_result,
                   added, session_added>>
    /\ UNCHANGED <<schedulerVars, transportVars, sessionVars, writerVars,
                   lockVars>>

\* add_index, and the append of add_frame, inside the lock:
\* _indices.append(index)
AddIndexLocked(t) ==
    /\ index_pc[t].op = "add_index"
    /\ heap' = [heap EXCEPT ![indices_ref] = @ \cup {index_pc[t].arg}]
    /\ indices_lock' = Nobody
    /\ index_pc' = [index_pc EXCEPT ![t] = Outside]
    /\ UNCHANGED <<indices_ref, held>>
    /\ UNCHANGED <<buffer_size_bytes, memory_buffer, frame_sizes,
                   current_buffer_size_bytes, indices, loaded, miss, files,
                   pending_writes, add_pc, add_arg, get_pc, get_arg, get_result,
                   added, session_added>>
    /\ UNCHANGED <<schedulerVars, transportVars, sessionVars, writerVars,
                   lockVars>>

\* a get_indices that hands out the list itself
GetIndicesAliased(t) ==
    /\ index_pc[t].op = "get_indices"
    /\ held' = [held EXCEPT ![t] = indices_ref]
    /\ heap' = Collected(heap, indices_ref, held')
    /\ indices_lock' = Nobody
    /\ index_pc' = [index_pc EXCEPT ![t] = Outside]
    /\ UNCHANGED indices_ref
    /\ UNCHANGED <<buffer_size_bytes, memory_buffer, frame_sizes,
                   current_buffer_size_bytes, indices, loaded, miss, files,
                   pending_writes, add_pc, add_arg, get_pc, get_arg, get_result,
                   added, session_added>>
    /\ UNCHANGED <<schedulerVars, transportVars, sessionVars, writerVars,
                   lockVars>>

\* get_indices inside the lock: return self._indices.copy()
GetIndicesLocked(t) ==
    /\ index_pc[t].op = "get_indices"
    /\ held' = [held EXCEPT ![t] = NewList]
    /\ heap' = Collected([heap EXCEPT ![NewList] = heap[indices_ref]],
                         indices_ref, held')
    /\ indices_lock' = Nobody
    /\ index_pc' = [index_pc EXCEPT ![t] = Outside]
    /\ UNCHANGED indices_ref
    /\ UNCHANGED <<buffer_size_bytes, memory_buffer, frame_sizes,
                   current_buffer_size_bytes, indices, loaded, miss, files,
                   pending_writes, add_pc, add_arg, get_pc, get_arg, get_result,
                   added, session_added>>
    /\ UNCHANGED <<schedulerVars, transportVars, sessionVars, writerVars,
                   lockVars>>

\* the caller of get_indices appends to the list it was given
CallerAppend(t, index) ==
    /\ index_pc[t] = Outside
    /\ held[t] # Nobody
    /\ heap' = [heap EXCEPT ![held[t]] = @ \cup {index}]
    /\ UNCHANGED <<indices_ref, indices_lock, index_pc, held>>
    /\ UNCHANGED <<buffer_size_bytes, memory_buffer, frame_sizes,
                   current_buffer_size_bytes, indices, loaded, miss, files,
                   pending_writes, add_pc, add_arg, get_pc, get_arg, get_result,
                   added, session_added>>
    /\ UNCHANGED <<schedulerVars, transportVars, sessionVars, writerVars,
                   lockVars>>

\* the caller of get_indices clears the list it was given
CallerClear(t) ==
    /\ index_pc[t] = Outside
    /\ held[t] # Nobody
    /\ heap' = [heap EXCEPT ![held[t]] = {}]
    /\ UNCHANGED <<indices_ref, indices_lock, index_pc, held>>
    /\ UNCHANGED <<buffer_size_bytes, memory_buffer, frame_sizes,
                   current_buffer_size_bytes, indices, loaded, miss, files,
                   pending_writes, add_pc, add_arg, get_pc, get_arg, get_result,
                   added, session_added>>
    /\ UNCHANGED <<schedulerVars, transportVars, sessionVars, writerVars,
                   lockVars>>

\* the calls that take the lock: the method and its argument
IndexCalls ==
    {[op |-> op, arg |-> 0] : op \in {"init_indices", "flush", "get_indices"}}
        \cup {[op |-> "add_index", arg |-> i] : i \in FrameIndices}

NextIndexList ==
    \/ \E t \in IndexThreads, call \in IndexCalls :
           IndicesLockAcquire(t, call.op, call.arg)
    \/ \E t \in IndexThreads, scanned \in SUBSET FrameIndices :
           InitIndicesLocked(t, scanned)
    \/ \E t \in IndexThreads : FlushLocked(t)
    \/ \E t \in IndexThreads : AddIndexLocked(t)
    \/ \E t \in IndexThreads : GetIndicesLocked(t)
    \/ \E t \in IndexThreads, i \in FrameIndices : CallerAppend(t, i)
    \/ \E t \in IndexThreads : CallerClear(t)

(***************************************************************************)
(* Singleton.__call__, the metaclass call of the image writer classes      *)
(* (BaseImageWriter.create calls PNGWriter() or JPEGWriter())              *)
(***************************************************************************)
Constructors == 1..MaxConstructors
WriterClasses == {"JPEGWriter", "PNGWriter"}

\* the class is not a key of _instances
NoInstance == 0

\* the thread is not inside __call__
NotCalling == [pc |-> "idle", cls |-> "none"]

InitSingleton ==
    /\ instances = [c \in WriterClasses |-> NoInstance]
    /\ objects_created = [c \in WriterClasses |-> 0]
    /\ call_pc = [t \in Constructors |-> NotCalling]
    /\ call_results = [t \in Constructors |-> {}]

\* "if cls not in cls._instances:"
SingletonCall(t, cls) ==
    /\ call_pc[t] = NotCalling
    /\ Cardinality(call_results[t]) < MaxCalls
    /\ call_pc' = [call_pc EXCEPT ![t] =
                      [pc |-> IF instances[cls] = NoInstance
                              THEN "construct" ELSE "return",
                       cls |-> cls]]
    /\ UNCHANGED <<instances, objects_created, call_results>>
    /\ UNCHANGED <<buffer_size_bytes, memory_buffer, frame_sizes,
                   current_buffer_size_bytes, indices, loaded, miss, files,
                   pending_writes, add_pc, add_arg, get_pc, get_arg, get_result,
                   added, session_added>>
    /\ UNCHANGED <<schedulerVars, transportVars, sessionVars, indexVars,
                   lockVars>>

\* "cls._instances[cls] = super().__call__(*args, **kwargs)": a new object is
\* made and stored under the class
SingletonConstruct(t) ==
    /\ call_pc[t].pc = "construct"
    /\ objects_created' =
           [objects_created EXCEPT ![call_pc[t].cls] = @ + 1]
    /\ instances' =
           [instances EXCEPT ![call_pc[t].cls] =
               objects_created[call_pc[t].cls] + 1]
    /\ call_pc' = [call_pc EXCEPT ![t].pc = "return"]
    /\ UNCHANGED call_results
    /\ UNCHANGED <<buffer_size_bytes, memory_buffer, frame_sizes,
                   current_buffer_size_bytes, indices, loaded, miss, files,
                   pending_writes, add_pc, add_arg, get_pc, get_arg, get_result,
                   added, session_added>>
    /\ UNCHANGED <<schedulerVars, transportVars, sessionVars, indexVars,
                   lockVars>>

\* "return cls._instances[cls]"
SingletonReturn(t) ==
    /\ call_pc[t].pc = "return"
    /\ call_results' =
           [call_results EXCEPT ![t] =
               @ \cup {<<call_pc[t].cls, instances[call_pc[t].cls]>>}]
    /\ call_pc' = [call_pc EXCEPT ![t] = NotCalling]
    /\ UNCHANGED <<instances, objects_created>>
    /\ UNCHANGED <<buffer_size_bytes, memory_buffer, frame_sizes,
                   current_buffer_size_bytes, indices, loaded, miss, files,
                   pending_writes, add_pc, add_arg, get_pc, get_arg, get_result,
                   added, session_added>>
    /\ UNCHANGED <<schedulerVars, transportVars, sessionVars, indexVars,
                   lockVars>>

NextSingleton ==
    \/ \E t \in Constructors, cls \in WriterClasses : SingletonCall(t, cls)
    \/ \E t \in Constructors : SingletonConstruct(t)
    \/ \E t \in Constructors : SingletonReturn(t)

(***************************************************************************)
(* The buffer over several source/target pairs: each pair has its own      *)
(* directory below temp_dir; a frame carries the pair it was added under.  *)
(* The memory limit is large enough for add_frame never to wait.           *)
(***************************************************************************)
Pairs == 1..MaxPairs

\* no source/target pair is loaded
NoPair == 0

InitSessions ==
    /\ session = NoPair
    /\ session_memory = EmptyDict
    /\ session_indices = {}
    /\ session_files = [p \in Pairs |-> EmptyDict]
    /\ session_writes = {}
    /\ session_history = [p \in Pairs \cup {NoPair} |-> {}]

\* FrameMemoryBuffer.has_index
SessionHasIndex(index) ==
    index \in DOMAIN session_memory \/ index \in session_indices

\* the frame get_frame(index) hands back, by the pair whose frame it is
\* (NoPair for None): the frame in memory, else the file of the listed index
\* in the directory of the loaded pair
SessionGetFrameResult(index) ==
    IF index \in DOMAIN session_memory THEN session_memory[index]
    ELSE IF session # NoPair /\ index \in session_indices
              /\ index \in DOMAIN session_files[session]
         THEN session_files[session][index]
    ELSE NoPair

\* FrameDirectoryBuffer.init_indices: the frame files of the directory
ScanDirectory(pair) == DOMAIN session_files[pair]

\* load(source_name, target_name, frames_count): the memory is cleared, the
\* names are set, the indices are read from the directory of the pair; the
\* writes that wait in the executor stay where they are
SessionLoad(pair) ==
    /\ session_memory' = EmptyDict
    /\ session' = pair
    /\ session_indices' = ScanDirectory(pair)
    /\ UNCHANGED <<session_files, session_writes, session_history>>
    /\ UNCHANGED <<buffer_size_bytes, memory_buffer, frame_sizes,
                   current_buffer_size_bytes, indices, loaded, miss, files,
                   pending_writes, add_pc, add_arg, get_pc, get_arg, get_result,
                   added, session_added>>
    /\ UNCHANGED <<schedulerVars, transportVars, indexVars, writerVars,
                   lockVars>>

\* flush(): names, indices and memory are dropped, the files and the waiting
\* writes stay
SessionFlush ==
    /\ session' = NoPair
    /\ session_indices' = {}
    /\ session_memory' = EmptyDict
    /\ UNCHANGED <<session_files, session_writes, session_history>>
    /\ UNCHANGED <<buffer_size_bytes, memory_buffer, frame_sizes,
                   current_buffer_size_bytes, indices, loaded, miss, files,
                   pending_writes, add_pc, add_arg, get_pc, get_arg, get_result,
                   added, session_added>>
    /\ UNCHANGED <<schedulerVars, transportVars, indexVars, writerVars,
                   lockVars>>

\* add_frame(frame): the frame goes to memory; on a loaded buffer the index
\* is listed and the disk write is submitted
SessionAddFrame(index) ==
    /\ session_memory' = DictPut(session_memory, index, session)
    /\ session_history' =
           [session_history EXCEPT ![session] = @ \cup {index}]
    /\ IF session = NoPair
       THEN UNCHANGED <<session_indices, session_writes>>
       ELSE /\ session_indices' = session_indices \cup {index}
            /\ session_writes' =
                   session_writes \cup {[index |-> index, pair |-> session]}
    /\ UNCHANGED <<session, session_files>>
    /\ UNCHANGED <<buffer_size_bytes, memory_buffer, frame_sizes,
                   current_buffer_size_bytes, indices, loaded, miss, files,
                   pending_writes, add_pc, add_arg, get_pc, get_arg, get_result,
                   added, session_added>>
    /\ UNCHANGED <<schedulerVars, transportVars, indexVars, writerVars,
                   lockVars>>

\* _save_frame_to_disk(frame) run by the executor: the path is built from the
\* names the buffer has when the write runs, so the file lands in the
\* directory of the pair loaded then (outside every pair's directory when
\* none is loaded)
SessionSaveFrameToDisk(write) ==
    /\ write \in session_writes
    /\ session_writes' = session_writes \ {write}
    /\ session_files' =
           IF session = NoPair THEN session_files
           ELSE [session_files EXCEPT ![session] =
                    DictPut(@, write.index, write.pair)]
    /\ UNCHANGED <<session, session_memory, session_indices, session_history>>
    /\ UNCHANGED <<buffer_size_bytes, memory_buffer, frame_sizes,
                   current_buffer_size_bytes, indices, loaded, miss, files,
                   pending_writes, add_pc, add_arg, get_pc, get_arg, get_result,
                   added, session_added>>
    /\ UNCHANGED <<schedulerVars, transportVars, indexVars, writerVars,
                   lockVars>>

\* get_frame(index) with the frame in memory: it is popped
SessionGetFrame(index) ==
    /\ index \in DOMAIN session_memory
    /\ session_memory' = DictPop(session_memory, index)
    /\ UNCHANGED <<session, session_indices, session_files, session_writes,
                   session_history>>
    /\ UNCHANGED <<buffer_size_bytes, memory_buffer, frame_sizes,
                   current_buffer_size_bytes, indices, loaded, miss, files,
                   pending_writes, add_pc, add_arg, get_pc, get_arg, get_result,
                   added, session_added>>
    /\ UNCHANGED <<schedulerVars, transportVars, indexVars, writerVars,
                   lockVars>>

NextSessions ==
    \/ \E p \in Pairs : SessionLoad(p)
    \/ SessionFlush
    \/ \E i \in FrameIndices : SessionAddFrame(i)
    \/ \E i \in FrameIndices, p \in Pairs :
          SessionSaveFrameToDisk([index |-> i, pair |-> p])
    \/ \E i \in FrameIndices : SessionGetFrame(i)

(***************************************************************************)
(* The locks of FrameMemoryBuffer: _buffer_lock (with _buffer_condition    *)
(* on it), _indices_lock and _disk_write_status_lock, all RLocks, and the  *)
(* order in which each method takes and gives them back.  A method is the  *)
(* list of its steps at the locks; what it does to the frames in between   *)
(* is left to the other parts, and every test on the data is a choice.     *)
(***************************************************************************)
LockThreads == 1..MaxLockThreads
Locks == {"buffer", "indices", "status"}

Acq(l) == [do |-> "acquire", lock |-> l, skip |-> 0]
Rel(l) == [do |-> "release", lock |-> l, skip |-> 0]
\* a test: go on with the next step, or pass over the next n steps
Branch(n) == [do |-> "branch", lock |-> "none", skip |-> n]
Goto(n) == [do |-> "goto", lock |-> "none", skip |-> n]
CondWaitStep == [do |-> "wait", lock |-> "buffer", skip |-> 0]
NotifyAllStep == [do |-> "notify_all", lock |-> "buffer", skip |-> 0]

\* FrameDirectoryBuffer.init_indices under the indices lock, then the memory
\* indices under "with self._buffer_lock, self._indices_lock"
InitIndicesLocks ==
    <<Acq("indices"), Rel("indices"),
      Acq("buffer"), Acq("indices"), Rel("indices"), Rel("buffer")>>

\* load: the memory is cleared under the buffer lock, the write status under
\* the status lock, and FrameDirectoryBuffer.load calls self.init_indices()
LoadLocks ==
    <<Acq("buffer"), Rel("buffer"), Acq("status"), Rel("status")>>
        \o InitIndicesLocks

\* add_frame: the buffer lock, the while loop on the condition, the indices
\* lock inside the buffer lock, then (unless the buffer is not loaded, which
\* returns from inside both) the status lock on its own
AddFrameLocks ==
    <<Acq("buffer"), Branch(1), CondWaitStep,
      Acq("indices"), Rel("indices"), Rel("buffer"),
      Branch(2), Acq("status"), Rel("status")>>

\* _save_frame_to_disk: the status lock, unless write_to_image fails
SaveFrameLocks == <<Branch(2), Acq("status"), Rel("status")>>

\* has_index: the memory under the buffer lock (a hit returns), then
\* FrameDirectoryBuffer.has_index under the indices lock
HasIndexLocks ==
    <<Acq("buffer"), Branch(2), Rel("buffer"), Goto(3),
      Rel("buffer"), Acq("indices"), Rel("indices")>>

\* get_frame: the memory under the buffer lock (a hit notifies and returns),
\* the write status under the status lock, then FrameDirectoryBuffer.get_frame,
\* which returns if not loaded and else calls self.has_index for the index and
\* for the earlier ones
GetFrameLocks ==
    <<Acq("buffer"), Branch(3), NotifyAllStep, Rel("buffer"), Goto(12),
      Rel("buffer"), Acq("status"), Rel("status"), Branch(8)>>
        \o HasIndexLocks \o <<Branch(-8)>>

GetIndicesLocks == <<Acq("indices"), Rel("indices")>>

\* a flush that clears the memory inside the indices lock, which the buffer
\* does not do
FlushLocksNested ==
    <<Acq("indices"), Acq("buffer"), NotifyAllStep, Rel("buffer"),
      Rel("indices"), Acq("status"), Rel("status")>>

\* flush: FrameDirectoryBuffer.flush under the indices lock, then the memory
\* under the buffer lock with notify_all, then the write status
FlushLocks ==
    <<Acq("indices"), Rel("indices"),
      Acq("buffer"), NotifyAllStep, Rel("buffer"),
      Acq("status"), Rel("status")>>

LockSteps(op) ==
    CASE op = "load" -> LoadLocks
      [] op = "add_frame" -> AddFrameLocks
      [] op = "save_frame_to_disk" -> SaveFrameLocks
      [] op = "get_frame" -> GetFrameLocks
      [] op = "has_index" -> HasIndexLocks
      [] op = "get_indices" -> GetIndicesLocks
      [] op = "init_indices" -> InitIndicesLocks
      [] op = "flush" -> FlushLocks
      [] OTHER -> <<>>

LockOps == {"load", "add_frame", "save_frame_to_disk", "get_frame",
            "has_index", "get_indices", "init_indices", "flush"}

\* the step the thread stands at
StepOf(t) ==
    IF caller_pc[t] \in DOMAIN LockSteps(caller_op[t])
    THEN LockSteps(caller_op[t])[caller_pc[t]]
    ELSE [do |-> "none", lock |-> "none", skip |-> 0]

InitLocks ==
    /\ rlock_owner = [l \in Locks |-> Nobody]
    /\ rlock_count = [l \in Locks |-> 0]
    /\ caller_op = [t \in LockThreads |-> "none"]
    /\ caller_pc = [t \in LockThreads |-> 0]
    /\ caller_wait = [t \in LockThreads |-> "no"]

LocksUnchanged ==
    /\ UNCHANGED <<buffer_size_bytes, memory_buffer, frame_sizes,
                   current_buffer_size_bytes, indices, loaded, miss, files,
                   pending_writes, add_pc, add_arg, get_pc, get_arg, get_result,
                   added, session_added>>
    /\ UNCHANGED <<schedulerVars, transportVars, sessionVars, indexVars,
                   writerVars>>

\* a thread enters a method of the buffer
LockCall(t, op) ==
    /\ caller_op[t] = "none"
    /\ caller_op' = [caller_op EXCEPT ![t] = op]
    /\ caller_pc' = [caller_pc EXCEPT ![t] = 1]
    /\ UNCHANGED <<rlock_owner, rlock_count, caller_wait>>
    /\ LocksUnchanged

\* RLock.acquire: free, or held by the caller itself
LockAcquire(t) ==
    /\ StepOf(t).do = "acquire"
    /\ caller_wait[t] = "no"
    /\ rlock_owner[StepOf(t).lock] \in {Nobody, t}
    /\ rlock_owner' = [rlock_owner EXCEPT ![StepOf(t).lock] = t]
    /\ rlock_count' = [rlock_count EXCEPT ![StepOf(t).lock] = @ + 1]
    /\ caller_pc' = [caller_pc EXCEPT ![t] = @ + 1]
    /\ UNCHANGED <<caller_op, caller_wait>>
    /\ LocksUnchanged

\* RLock.release at the end of a with block
LockRelease(t) ==
    /\ StepOf(t).do = "release"
    /\ rlock_owner[StepOf(t).lock] = t
    /\ rlock_count' = [rlock_count EXCEPT ![StepOf(t).lock] = @ - 1]
    /\ rlock_owner' =
           [rlock_owner EXCEPT ![StepOf(t).lock] =
               IF rlock_count[StepOf(t).lock] = 1 THEN Nobody ELSE t]
    /\ caller_pc' = [caller_pc EXCEPT ![t] = @ + 1]
    /\ UNCHANGED <<caller_op, caller_wait>>
    /\ LocksUnchanged

\* a test on the data, or a return
LockJump(t) ==
    /\ StepOf(t).do \in {"branch", "goto"}
    /\ \E taken \in BOOLEAN :
          /\ StepOf(t).do = "goto" => taken
          /\ caller_pc' =
                 [caller_pc EXCEPT ![t] =
                     IF taken THEN @ + 1 + StepOf(t).skip ELSE @ + 1]
    /\ UNCHANGED <<rlock_owner, rlock_count, caller_op, caller_wait>>
    /\ LocksUnchanged

\* _buffer_condition.wait(): the buffer lock is given up whole and the thread
\* waits for a notify
ConditionWait(t) ==
    /\ StepOf(t).do = "wait"
    /\ caller_wait[t] = "no"
    /\ rlock_owner["buffer"] = t
    /\ rlock_owner' = [rlock_owner EXCEPT !["buffer"] = Nobody]
    /\ rlock_count' = [rlock_count EXCEPT !["buffer"] = 0]
    /\ caller_wait' = [caller_wait EXCEPT ![t] = "waiting"]
    /\ UNCHANGED <<caller_op, caller_pc>>
    /\ LocksUnchanged

\* _buffer_condition.notify_all() by the holder of the buffer lock
ConditionNotifyAll(t) ==
    /\ StepOf(t).do = "notify_all"
    /\ rlock_owner["buffer"] = t
    /\ caller_wait' =
           [u \in LockThreads |->
               IF caller_wait[u] = "waiting" THEN "notified"
               ELSE caller_wait[u]]
    /\ caller_pc' = [caller_pc EXCEPT ![t] = @ + 1]
    /\ UNCHANGED <<rlock_owner, rlock_count, caller_op>>
    /\ LocksUnchanged

\* the end of wait(): the notified thread takes the buffer lock again and goes
\* back to the test of the while loop
ConditionReacquire(t) ==
    /\ caller_wait[t] = "notified"
    /\ rlock_owner["buffer"] = Nobody
    /\ rlock_owner' = [rlock_owner EXCEPT !["buffer"] = t]
    /\ rlock_count' = [rlock_count EXCEPT !["buffer"] = 1]
    /\ caller_wait' = [caller_wait EXCEPT ![t] = "no"]
    /\ caller_pc' = [caller_pc EXCEPT ![t] = @ - 1]
    /\ UNCHANGED caller_op
    /\ LocksUnchanged

\* the method returns
LockReturn(t) ==
    /\ caller_op[t] # "none"
    /\ caller_pc[t] = Len(LockSteps(caller_op[t])) + 1
    /\ caller_op' = [caller_op EXCEPT ![t] = "none"]
    /\ caller_pc' = [caller_pc EXCEPT ![t] = 0]
    /\ UNCHANGED <<rlock_owner, rlock_count, caller_wait>>
    /\ LocksUnchanged

NextLocks ==
    \/ \E t \in LockThreads, op \in LockOps : LockCall(t, op)
    \/ \E t \in LockThreads : LockAcquire(t)
    \/ \E t \in LockThreads : LockRelease(t)
    \/ \E t \in LockThreads : LockJump(t)
    \/ \E t \in LockThreads : ConditionWait(t)
    \/ \E t \in LockThreads : ConditionNotifyAll(t)
    \/ \E t \in LockThreads : ConditionReacquire(t)
    \/ \E t \in LockThreads : LockReturn(t)

(***************************************************************************)
(* The buffer: a fresh temporary directory, any memory limit               *)
(***************************************************************************)
InitBuffer ==
    /\ buffer_size_bytes \in 0..MaxBufferSize
    /\ memory_buffer = EmptyDict
    /\ frame_sizes = EmptyDict
    /\ current_buffer_size_bytes = 0
    /\ indices = {}
    /\ loaded = FALSE
    /\ miss = 0
    /\ files = {}
    /\ pending_writes = [i \in FrameIndices |-> 0]
    /\ add_pc = "idle"
    /\ add_arg = NoFrame
    /\ get_pc = "idle"
    /\ get_arg = NoRequest
    /\ get_result = Returned(0, None)
    /\ added = {}
    /\ session_added = {}
    /\ InitSessions
    /\ InitIndexList
    /\ InitSingleton
    /\ InitLocks

NextBuffer ==
    \/ \E i \in FrameIndices, s \in FrameSizes : AddFrameCall(i, s)
    \/ AddFrameWake
    \/ AddFrameSubmit
    \/ \E i \in FrameIndices : SaveFrameToDisk(i)
    \/ \E i \in FrameIndices : SaveFrameToDiskFailed(i)
    \/ \E r \in RequestIndices, p \in BOOLEAN : GetFrameCall(r, p)
    \/ GetFrameDisk
    \/ \E i \in FrameIndices : AddIndex(i)
    \/ Flush
    \/ Load

(***************************************************************************)
(* FrameProcessingServer: the scheduling loop _process_frames, the futures *)
(* of _process_frame and their done callback process_done                  *)
(***************************************************************************)
\* the frames of the target: 0..end_frame
Frames == 0..MaxEndFrame

\* the loop waits for no future
NoFuture == MaxEndFrame + 1

\* _event_rewind is clear
NoRewind == [set |-> FALSE, tag |-> 0]

\* int() of the average, which is kept in halves and is never negative
Truncate(avg) == avg \div 2

\* a step that is not held at 1
StepUnclamped(avg, delta) == Truncate(avg) + delta

\* step = int(average) + processing_delta, at least 1
Step(avg, delta) ==
    IF Truncate(avg) + delta < 1 THEN 1 ELSE Truncate(avg) + delta

\* processing_delta after the comparison of the timeline's positions
\* a symmetric adjustment, which the loop does not make: down whenever the
\* timeline is ahead of the request, up whenever it is behind
AdjustDeltaSymmetric(delta, avg) ==
    IF last_added_index > last_requested_index THEN delta - 1
    ELSE IF last_added_index < last_requested_index THEN delta + 1
    ELSE delta

AdjustDelta(delta, avg) ==
    IF /\ last_added_index > last_requested_index + current_frame_miss
       /\ 2 * delta > avg
    THEN delta - 1
    ELSE IF last_added_index < last_requested_index THEN delta + 1
    ELSE delta

\* the list without the future of frame f (list.remove)
Remove(list, f) == SelectSeq(list, LAMBDA x : x # f)

\* the members of the list futures
InFutures == {futures[k] : k \in 1..Len(futures)}

\* _start_processing: the event is set and a new thread runs the loop with
\* fresh local lists; the while condition is tested for the first time
StartProcessing(start_frame) ==
    /\ ~event_processing
    /\ loop_pc \in {"off", "stopped", "crashed", "finished"}
    /\ event_processing' = TRUE
    /\ next_frame' = start_frame
    /\ loop_pc' = IF start_frame <= MaxEndFrame THEN "check" ELSE "finished"
    /\ processing' = {}
    /\ futures' = <<>>
    /\ future_state' = [f \in Frames |-> "new"]
    /\ waiting_for' = NoFuture
    /\ processing_delta' = 0
    /\ UNCHANGED <<execution_threads, event_rewind, average_frame_skip,
                   timeline_frames, last_added_index, last_requested_index,
                   current_frame_miss>>
    /\ UNCHANGED <<bufferVars, transportVars, rateVars, serverVars>>

\* _stop_processing: the event is cleared; the loop notices it at its next
\* test of the event
StopProcessing ==
    /\ event_processing
    /\ event_processing' = FALSE
    /\ UNCHANGED <<execution_threads, event_rewind, loop_pc, next_frame,
                   processing, futures, future_state, waiting_for,
                   processing_delta, average_frame_skip, timeline_frames,
                   last_added_index, last_requested_index, current_frame_miss>>
    /\ UNCHANGED <<bufferVars, transportVars, rateVars, serverVars>>

\* rewind(frame_position) while the loop runs: the timeline is rewound and
\* the event is set with the tag frame_position - 1
Rewind(frame_position) ==
    /\ event_processing
    /\ event_rewind' = [set |-> TRUE, tag |-> frame_position - 1]
    /\ last_requested_index' = frame_position - 1
    /\ UNCHANGED <<execution_threads, event_processing, loop_pc, next_frame,
                   processing, futures, future_state, waiting_for,
                   processing_delta, average_frame_skip, timeline_frames,
                   last_added_index, current_frame_miss>>
    /\ UNCHANGED <<bufferVars, transportVars, rateVars, serverVars>>

\* the player asks the timeline for a frame: the requested position and the
\* miss move
TimeLineGetFrame(index, frame_miss) ==
    /\ loop_pc # "off"
    /\ last_requested_index' = index
    /\ current_frame_miss' = frame_miss
    /\ UNCHANGED <<execution_threads, event_processing, event_rewind, loop_pc,
                   next_frame, processing, futures, future_state, waiting_for,
                   processing_delta, average_frame_skip, timeline_frames,
                   last_added_index>>
    /\ UNCHANGED <<bufferVars, transportVars, rateVars, serverVars>>

\* the top of the loop body: a set rewind event moves next_frame to its tag;
\* a frame that is neither in processing nor in the timeline is submitted, and
\* with execution_threads futures in the list the loop waits for the first
LoopSubmit ==
    /\ loop_pc = "check"
    /\ next_frame' = IF event_rewind.set THEN event_rewind.tag ELSE next_frame
    /\ event_rewind' = NoRewind
    /\ IF next_frame' \notin processing /\ next_frame' \notin timeline_frames
       THEN /\ processing' = processing \cup {next_frame'}
            /\ futures' = Append(futures, next_frame')
            /\ future_state' = [future_state EXCEPT ![next_frame'] = "running"]
            /\ IF Len(futures') >= execution_threads
               THEN loop_pc' = "wait" /\ waiting_for' = Head(futures')
               ELSE loop_pc' = "tick" /\ waiting_for' = NoFuture
       ELSE /\ loop_pc' = "tick"
            /\ UNCHANGED <<processing, futures, future_state, waiting_for>>
    /\ UNCHANGED <<execution_threads, event_processing, processing_delta,
                   average_frame_skip, timeline_frames, last_added_index,
                   last_requested_index, current_frame_miss>>
    /\ UNCHANGED <<bufferVars, transportVars, rateVars, serverVars>>

\* futures[:1][0].result() returns when the future is done, and raises the
\* exception of _process_frame in the loop thread when it has one
LoopResult ==
    /\ loop_pc = "wait"
    /\ future_state[waiting_for] \notin {"running"}
    /\ loop_pc' = IF future_state[waiting_for] = "failed"
                  THEN "crashed" ELSE "tick"
    /\ waiting_for' = NoFuture
    /\ UNCHANGED <<execution_threads, event_processing, event_rewind,
                   next_frame, processing, futures, future_state,
                   processing_delta, average_frame_skip, timeline_frames,
                   last_added_index, last_requested_index, current_frame_miss>>
    /\ UNCHANGED <<bufferVars, transportVars, rateVars, serverVars>>

\* the rest of the loop body: the test of the processing event, the update of
\* the average frame skip, the adjustment of processing_delta, the step, and
\* the while condition
LoopTick ==
    /\ loop_pc = "tick"
    /\ IF ~event_processing
       THEN /\ loop_pc' = "stopped"
            /\ UNCHANGED <<next_frame, processing_delta, average_frame_skip>>
       ELSE /\ \E avg \in 0..MaxSkipHalves : average_frame_skip' = avg
            /\ processing_delta' =
                   AdjustDelta(processing_delta, average_frame_skip')
            /\ processing_delta' <= MaxDelta
            /\ next_frame' =
                   next_frame + Step(average_frame_skip', processing_delta')
            /\ loop_pc' = IF next_frame' <= MaxEndFrame
                          THEN "check" ELSE "finished"
    /\ UNCHANGED <<execution_threads, event_processing, event_rewind,
                   processing, futures, future_state, waiting_for,
                   timeline_frames, last_added_index, last_requested_index,
                   current_frame_miss>>
    /\ UNCHANGED <<bufferVars, transportVars, rateVars, serverVars>>

\* A worker runs _process_frame and, as the last thing of setting the
\* future's result or exception, the done callback process_done.
\* _process_frame adds the frame to the timeline and returns (time, index);
\* process_done removes the frame from processing and the future from futures
ProcessFrame(frame_index) ==
    /\ future_state[frame_index] = "running"
    /\ future_state' = [future_state EXCEPT ![frame_index] = "done"]
    /\ timeline_frames' = timeline_frames \cup {frame_index}
    /\ last_added_index' = frame_index
    /\ processing' = processing \ {frame_index}
    /\ notified' = notified \cup {frame_index}
    /\ futures' = Remove(futures, frame_index)
    /\ UNCHANGED <<execution_threads, event_processing, event_rewind, loop_pc,
                   next_frame, waiting_for, processing_delta,
                   average_frame_skip, last_requested_index,
                   current_frame_miss>>
    /\ UNCHANGED <<bufferVars, transportVars, rateVars, settingVars, threadVars>>

\* a process_done that takes the frame out of processing although
\* _process_frame returned None
ProcessFrameOutOfRangeForgotten(frame_index) ==
    /\ future_state[frame_index] = "running"
    /\ future_state' = [future_state EXCEPT ![frame_index] = "done"]
    /\ futures' = Remove(futures, frame_index)
    /\ processing' = processing \ {frame_index}
    /\ UNCHANGED <<execution_threads, event_processing, event_rewind, loop_pc,
                   next_frame, waiting_for, processing_delta,
                   average_frame_skip, timeline_frames, last_added_index,
                   last_requested_index, current_frame_miss>>
    /\ UNCHANGED <<bufferVars, transportVars, rateVars, serverVars>>

\* extract_frame raises EOutOfRange and _process_frame returns None;
\* process_done skips the "if result" block, the frame stays in processing,
\* the future is removed from futures
ProcessFrameOutOfRange(frame_index) ==
    /\ future_state[frame_index] = "running"
    /\ future_state' = [future_state EXCEPT ![frame_index] = "done"]
    /\ futures' = Remove(futures, frame_index)
    /\ UNCHANGED <<execution_threads, event_processing, event_rewind, loop_pc,
                   next_frame, processing, waiting_for, processing_delta,
                   average_frame_skip, timeline_frames, last_added_index,
                   last_requested_index, current_frame_miss>>
    /\ UNCHANGED <<bufferVars, transportVars, rateVars, serverVars>>

\* a processor (or scale, or another error of extract_frame) raises and the
\* exception is stored in the future; in process_done future_.result() raises
\* it again, which ends the callback before futures.remove(future_)
ProcessFrameRaises(frame_index) ==
    /\ future_state[frame_index] = "running"
    /\ future_state' = [future_state EXCEPT ![frame_index] = "failed"]
    /\ UNCHANGED <<execution_threads, event_processing, event_rewind, loop_pc,
                   next_frame, processing, futures, waiting_for,
                   processing_delta, average_frame_skip, timeline_frames,
                   last_added_index, last_requested_index, current_frame_miss>>
    /\ UNCHANGED <<bufferVars, transportVars, rateVars, serverVars>>

(***************************************************************************)
(* The loop's own measure of its speed: _processing_fps, set by            *)
(* process_done, and the samples fps / _processing_fps of the average      *)
(* frame skip                                                              *)
(***************************************************************************)
\* the frames per second of uniform fast transforms: a frame is processed in
\* half the time it plays at most
FastProcessingFps == 2 * MaxFps

\* fps / _processing_fps, in units of 1 / FastProcessingFps of a frame
SkipSample == (fps * FastProcessingFps) \div processing_fps

\* get_average() of the samples, in halves of a frame, rounded down (int()
\* of the average and its comparison with an integer lose nothing by it)
AverageOf(sum, count) == (2 * sum) \div (count * FastProcessingFps)

\* the frames whose transform has returned and whose done callback has not
\* ended: each keeps one worker of the pool
InCallback == {f \in Frames : future_state[f] = "returned"}

\* a worker returns from _process_frame: the frame is in the timeline and the
\* future has its result, the waiters of result() are released; the done
\* callback has not run yet. The worker is one that is not in a callback
ProcessFrameReturns(frame_index) ==
    /\ future_state[frame_index] = "running"
    /\ Cardinality(InCallback) < execution_threads
    /\ future_state' = [future_state EXCEPT ![frame_index] = "returned"]
    /\ timeline_frames' = timeline_frames \cup {frame_index}
    /\ last_added_index' = frame_index
    /\ UNCHANGED <<execution_threads, event_processing, event_rewind, loop_pc,
                   next_frame, processing, futures, waiting_for,
                   processing_delta, average_frame_skip, last_requested_index,
                   current_frame_miss>>
    /\ UNCHANGED <<bufferVars, transportVars, rateVars, serverVars>>

\* process_done for a future with a result: the processing time is averaged,
\* the frame leaves processing, _processing_fps is set from the average, and
\* the future leaves futures
ProcessDone(frame_index) ==
    /\ future_state[frame_index] = "returned"
    /\ future_state' = [future_state EXCEPT ![frame_index] = "done"]
    /\ processing' = processing \ {frame_index}
    /\ processing_fps' = FastProcessingFps
    /\ notified' = notified \cup {frame_index}
    /\ futures' = Remove(futures, frame_index)
    /\ UNCHANGED <<execution_threads, event_processing, event_rewind, loop_pc,
                   next_frame, waiting_for, processing_delta,
                   average_frame_skip, timeline_frames, last_added_index,
                   last_requested_index, current_frame_miss, fps, skip_sum,
                   skip_count>>
    /\ UNCHANGED <<bufferVars, transportVars, settingVars, threadVars>>

\* the rest of the loop body, with the sample and the average computed from
\* _processing_fps as it is when the loop reads it
LoopTickMeasured ==
    /\ loop_pc = "tick"
    /\ IF ~event_processing
       THEN /\ loop_pc' = "stopped"
            /\ UNCHANGED <<next_frame, processing_delta, average_frame_skip,
                           skip_sum, skip_count>>
       ELSE /\ skip_sum' = skip_sum + SkipSample
            /\ skip_count' = skip_count + 1
            /\ average_frame_skip' = AverageOf(skip_sum', skip_count')
            /\ processing_delta' =
                   AdjustDelta(processing_delta, average_frame_skip')
            /\ next_frame' =
                   next_frame + Step(average_frame_skip', processing_delta')
            /\ loop_pc' = IF next_frame' <= MaxEndFrame
                          THEN "check" ELSE "finished"
    /\ UNCHANGED <<execution_threads, event_processing, event_rewind,
                   processing, futures, future_state, waiting_for,
                   timeline_frames, last_added_index, last_requested_index,
                   current_frame_miss, fps, processing_fps>>
    /\ UNCHANGED <<bufferVars, transportVars, serverVars>>

(***************************************************************************)
(* The requests FrameProcessingServer._handle_request serves by changing   *)
(* the server's state                                                      *)
(***************************************************************************)
Settings == 0..MaxSetting

\* the default of the rule that loads _scale_quality, in percent
DefaultQuality == 100

\* TimeLine.load: the timeline holds a clean session, none of the frames
\* added before
TimeLineLoad(start_frame) ==
    /\ timeline_frames' = {}
    /\ last_added_index' = 0
    /\ last_requested_index' = start_frame
    /\ current_frame_miss' = 0

\* SET_SOURCE: the source_path setter stores the path, reloads the
\* parameters and loads the timeline from the last requested index; the
\* processing event and the loop thread are left as they are
SetSource(value) ==
    /\ source_path' = value
    /\ TimeLineLoad(last_requested_index)
    /\ UNCHANGED <<execution_threads, event_processing, event_rewind, loop_pc,
                   next_frame, processing, futures, future_state, waiting_for,
                   processing_delta, average_frame_skip>>
    /\ UNCHANGED <<target_path, scale_quality, notified, threadVars>>
    /\ UNCHANGED <<bufferVars, transportVars, rateVars>>

\* SET_TARGET: the target_path setter, the timeline loaded from frame 1
SetTarget(value) ==
    /\ target_path' = value
    /\ TimeLineLoad(1)
    /\ UNCHANGED <<execution_threads, event_processing, event_rewind, loop_pc,
                   next_frame, processing, futures, future_state, waiting_for,
                   processing_delta, average_frame_skip>>
    /\ UNCHANGED <<source_path, scale_quality, notified, threadVars>>
    /\ UNCHANGED <<bufferVars, transportVars, rateVars>>

\* SET_QUALITY: the quality setter stores the value and does nothing else
SetQuality(value) ==
    /\ scale_quality' = value
    /\ UNCHANGED <<execution_threads, event_processing, event_rewind, loop_pc,
                   next_frame, processing, futures, future_state, waiting_for,
                   processing_delta, average_frame_skip, timeline_frames,
                   last_added_index, last_requested_index, current_frame_miss>>
    /\ UNCHANGED <<source_path, target_path, notified, threadVars>>
    /\ UNCHANGED <<bufferVars, transportVars, rateVars>>

\* _process_frame called by the thread that serves the request: the frame is
\* added to the timeline, or extract_frame raises EOutOfRange and nothing is
\* added; the result is dropped and nothing is published
ProcessFrameSynchronously(frame_index, in_range) ==
    /\ timeline_frames' = IF in_range THEN timeline_frames \cup {frame_index}
                          ELSE timeline_frames
    /\ last_added_index' = IF in_range THEN frame_index ELSE last_added_index
    /\ UNCHANGED notified

\* CMD_FRAME_PROCESSED: _process_frame(request.position), whether the loop
\* runs or not
FrameProcessed(position, in_range) ==
    /\ ProcessFrameSynchronously(position, in_range)
    /\ UNCHANGED <<execution_threads, event_processing, event_rewind, loop_pc,
                   next_frame, processing, futures, future_state, waiting_for,
                   processing_delta, average_frame_skip, last_requested_index,
                   current_frame_miss>>
    /\ UNCHANGED <<bufferVars, transportVars, rateVars, settingVars, threadVars>>

\* SET_POSITION while the processing event is not set: rewind(frame_position)
\* processes the frame at once
RewindNotProcessing(frame_position, in_range) ==
    /\ ~event_processing
    /\ ProcessFrameSynchronously(frame_position, in_range)
    /\ UNCHANGED <<execution_threads, event_processing, event_rewind, loop_pc,
                   next_frame, processing, futures, future_state, waiting_for,
                   processing_delta, average_frame_skip, last_requested_index,
                   current_frame_miss>>
    /\ UNCHANGED <<bufferVars, transportVars, rateVars, settingVars, threadVars>>

\* CMD_START_PROCESSING: start(position) starts the loop when the processing
\* event is not set, and does nothing when it is set
Start(start_frame) ==
    \/ /\ ~event_processing
       /\ StartProcessing(start_frame)
    \/ /\ event_processing
       /\ UNCHANGED vars

\* CMD_STOP_PROCESSING: stop() clears the event when it is set; the join of
\* the loop thread gives up after a second
Stop ==
    \/ StopProcessing
    \/ /\ ~event_processing
       /\ UNCHANGED vars

\* the positions the requests of this part name: the frames of the target;
\* a seek while the loop runs goes to a frame after the first, which keeps
\* the loop on the frames of the target
Positions == 1..MaxEndFrame
SeekPositions == 2..MaxEndFrame

(***************************************************************************)
(* The threads start() and stop() create and leave behind: each thread     *)
(* that runs _process_frames, by its position in the loop and its local    *)
(* next_frame                                                              *)
(***************************************************************************)
LoopThreads == 1..MaxLoopThreads

\* a thread that was not started yet
NotStarted == [pc |-> "new", next_frame |-> 0]

\* the threads inside _process_frames
Alive == {t \in LoopThreads : loop_threads[t].pc \in {"check", "wait", "tick"}}

\* the position of a loop whose local next_frame is n, at the while condition
AtWhile(n) == [pc |-> IF n <= MaxEndFrame THEN "check" ELSE "ended",
               next_frame |-> n]

\* CMD_START_PROCESSING while the processing event is clear: start() calls
\* _start_processing, which sets the event and starts a new thread on
\* _process_frames; whether a former thread has ended is not looked at
StartLoop(start_frame) ==
    /\ ~event_processing
    /\ loops_started < MaxLoopThreads
    /\ event_processing' = TRUE
    /\ loops_started' = loops_started + 1
    /\ process_frames_thread' = loops_started'
    /\ loop_threads' = [loop_threads EXCEPT ![loops_started'] =
                            AtWhile(start_frame)]
    /\ UNCHANGED <<told_to_stop, resumed>>
    /\ UNCHANGED <<execution_threads, event_rewind, loop_pc, next_frame,
                   processing, futures, future_state, waiting_for,
                   processing_delta, average_frame_skip, timeline_frames,
                   last_added_index, last_requested_index, current_frame_miss>>
    /\ UNCHANGED <<bufferVars, transportVars, rateVars, settingVars, notified>>

\* CMD_START_PROCESSING while the processing event is set: nothing happens
StartLoopStarted ==
    /\ event_processing
    /\ UNCHANGED vars

\* CMD_STOP_PROCESSING while the processing event is set: _stop_processing
\* clears the event, joins the thread for a second at most and forgets it,
\* ended or not
StopLoop ==
    /\ event_processing
    /\ process_frames_thread # 0
    /\ event_processing' = FALSE
    /\ process_frames_thread' = 0
    /\ told_to_stop' = told_to_stop \cup Alive
    /\ UNCHANGED <<loop_threads, loops_started, resumed>>
    /\ UNCHANGED <<execution_threads, event_rewind, loop_pc, next_frame,
                   processing, futures, future_state, waiting_for,
                   processing_delta, average_frame_skip, timeline_frames,
                   last_added_index, last_requested_index, current_frame_miss>>
    /\ UNCHANGED <<bufferVars, transportVars, rateVars, settingVars, notified>>

\* the top of the loop body in the thread t: a frame is submitted or not, and
\* with execution_threads futures in the list the thread waits in result()
ThreadSubmit(t, waits) ==
    /\ loop_threads[t].pc = "check"
    /\ loop_threads' = [loop_threads EXCEPT ![t].pc =
                            IF waits THEN "wait" ELSE "tick"]
    /\ UNCHANGED <<process_frames_thread, loops_started, told_to_stop, resumed>>
    /\ UNCHANGED <<execution_threads, event_processing, event_rewind, loop_pc,
                   next_frame, processing, futures, future_state, waiting_for,
                   processing_delta, average_frame_skip, timeline_frames,
                   last_added_index, last_requested_index, current_frame_miss>>
    /\ UNCHANGED <<bufferVars, transportVars, rateVars, settingVars, notified>>

\* result() returns in the thread t: the worker has finished the frame
ThreadResult(t) ==
    /\ loop_threads[t].pc = "wait"
    /\ loop_threads' = [loop_threads EXCEPT ![t].pc = "tick"]
    /\ UNCHANGED <<process_frames_thread, loops_started, told_to_stop, resumed>>
    /\ UNCHANGED <<execution_threads, event_processing, event_rewind, loop_pc,
                   next_frame, processing, futures, future_state, waiting_for,
                   processing_delta, average_frame_skip, timeline_frames,
                   last_added_index, last_requested_index, current_frame_miss>>
    /\ UNCHANGED <<bufferVars, transportVars, rateVars, settingVars, notified>>

\* the rest of the loop body in the thread t: with the processing event clear
\* the loop breaks and the thread ends; with the event set next_frame moves on
\* and the while condition is tested
ThreadTick(t, step) ==
    /\ loop_threads[t].pc = "tick"
    /\ IF ~event_processing
       THEN /\ loop_threads' = [loop_threads EXCEPT ![t].pc = "ended"]
            /\ UNCHANGED resumed
       ELSE /\ loop_threads' = [loop_threads EXCEPT ![t] =
                                    AtWhile(loop_threads[t].next_frame + step)]
            /\ resumed' = IF t \in told_to_stop THEN resumed \cup {t}
                          ELSE resumed
    /\ UNCHANGED <<process_frames_thread, loops_started, told_to_stop>>
    /\ UNCHANGED <<execution_threads, event_processing, event_rewind, loop_pc,
                   next_frame, processing, futures, future_state, waiting_for,
                   processing_delta, average_frame_skip, timeline_frames,
                   last_added_index, last_requested_index, current_frame_miss>>
    /\ UNCHANGED <<bufferVars, transportVars, rateVars, settingVars, notified>>

\* the start and stop requests and the threads of the scheduling loop
NextLoops ==
    \/ \E f \in Positions : StartLoop(f)
    \/ StartLoopStarted
    \/ StopLoop
    \/ \E t \in LoopThreads, waits \in BOOLEAN : ThreadSubmit(t, waits)
    \/ \E t \in LoopThreads : ThreadResult(t)
    \/ \E t \in LoopThreads, step \in 1..2 : ThreadTick(t, step)

NextServer ==
    \/ \E f \in Positions : Start(f)
    \/ Stop
    \/ \E p \in SeekPositions : Rewind(p)
    \/ \E p \in Positions, r \in BOOLEAN : RewindNotProcessing(p, r)
    \/ \E p \in Positions, r \in BOOLEAN : FrameProcessed(p, r)
    \/ \E v \in Settings : SetSource(v)
    \/ \E v \in Settings : SetTarget(v)
    \/ \E v \in Settings : SetQuality(v)
    \/ LoopSubmit
    \/ LoopResult
    \/ LoopTick
    \/ \E f \in Frames : ProcessFrame(f)
    \/ \E f \in Frames : ProcessFrameOutOfRange(f)

\* the loop and its workers, each done callback a step of its own
NextWorkers ==
    \/ \E f \in Frames : StartProcessing(f)
    \/ StopProcessing
    \/ LoopSubmit
    \/ LoopResult
    \/ LoopTick
    \/ \E f \in Frames : ProcessFrameReturns(f)
    \/ \E f \in Frames : ProcessDone(f)
    \/ \E f \in Frames : ProcessFrameOutOfRange(f)
    \/ \E f \in Frames : ProcessFrameRaises(f)

InitScheduler ==
    /\ execution_threads \in 1..MaxThreads
    /\ event_processing = FALSE
    /\ event_rewind = NoRewind
    /\ loop_pc = "off"
    /\ next_frame = 0
    /\ processing = {}
    /\ futures = <<>>
    /\ future_state = [f \in Frames |-> "new"]
    /\ waiting_for = NoFuture
    /\ processing_delta = 0
    /\ average_frame_skip = 0
    /\ timeline_frames = {}
    /\ last_added_index = 0
    /\ last_requested_index = 0
    /\ current_frame_miss = 0
    /\ fps \in 1..MaxFps
    /\ processing_fps = 1
    /\ skip_sum = 0
    /\ skip_count = 0
    /\ source_path = 0
    /\ target_path = 0
    /\ scale_quality = DefaultQuality
    /\ notified = {}
    /\ process_frames_thread = 0
    /\ loop_threads = [t \in LoopThreads |-> NotStarted]
    /\ loops_started = 0
    /\ told_to_stop = {}
    /\ resumed = {}

\* "if self._event_rewind.is_set():" at the top of the loop body
LoopRewindTest ==
    /\ loop_pc = "check"
    /\ loop_pc' = IF event_rewind.set THEN "rewind_tag" ELSE "submit"
    /\ UNCHANGED <<execution_threads, event_processing, event_rewind,
                   next_frame, processing, futures, future_state, waiting_for,
                   processing_delta, average_frame_skip, timeline_frames,
                   last_added_index, last_requested_index, current_frame_miss>>
    /\ UNCHANGED <<bufferVars, transportVars, rateVars, serverVars>>

\* "next_frame = self._event_rewind.tag or 0"
LoopRewindTag ==
    /\ loop_pc = "rewind_tag"
    /\ next_frame' = event_rewind.tag
    /\ loop_pc' = "rewind_clear"
    /\ UNCHANGED <<execution_threads, event_processing, event_rewind,
                   processing, futures, future_state, waiting_for,
                   processing_delta, average_frame_skip, timeline_frames,
                   last_added_index, last_requested_index, current_frame_miss>>
    /\ UNCHANGED <<bufferVars, transportVars, rateVars, serverVars>>

\* "self._event_rewind.clear()"
LoopRewindClear ==
    /\ loop_pc = "rewind_clear"
    /\ event_rewind' = NoRewind
    /\ loop_pc' = "submit"
    /\ UNCHANGED <<execution_threads, event_processing, next_frame,
                   processing, futures, future_state, waiting_for,
                   processing_delta, average_frame_skip, timeline_frames,
                   last_added_index, last_requested_index, current_frame_miss>>
    /\ UNCHANGED <<bufferVars, transportVars, rateVars, serverVars>>

\* the submit block of the loop body, after the rewind block
\* a submit block without the test of line 454, which the loop does not have
LoopSubmitBlockUnchecked ==
    /\ loop_pc = "submit"
    /\ processing' = processing \cup {next_frame}
    /\ futures' = Append(futures, next_frame)
    /\ future_state' = [future_state EXCEPT ![next_frame] = "running"]
    /\ IF Len(futures') >= execution_threads
       THEN loop_pc' = "wait" /\ waiting_for' = Head(futures')
       ELSE loop_pc' = "tick" /\ waiting_for' = NoFuture
    /\ UNCHANGED <<execution_threads, event_processing, event_rewind,
                   next_frame, processing_delta, average_frame_skip,
                   timeline_frames, last_added_index, last_requested_index,
                   current_frame_miss>>
    /\ UNCHANGED <<bufferVars, transportVars, rateVars, serverVars>>

LoopSubmitBlock ==
    /\ loop_pc = "submit"
    /\ IF next_frame \notin processing /\ next_frame \notin timeline_frames
       THEN /\ processing' = processing \cup {next_frame}
            /\ futures' = Append(futures, next_frame)
            /\ future_state' = [future_state EXCEPT ![next_frame] = "running"]
            /\ IF Len(futures') >= execution_threads
               THEN loop_pc' = "wait" /\ waiting_for' = Head(futures')
               ELSE loop_pc' = "tick" /\ waiting_for' = NoFuture
       ELSE /\ loop_pc' = "tick"
            /\ UNCHANGED <<processing, futures, future_state, waiting_for>>
    /\ UNCHANGED <<execution_threads, event_processing, event_rewind,
                   next_frame, processing_delta, average_frame_skip,
                   timeline_frames, last_added_index, last_requested_index,
                   current_frame_miss>>
    /\ UNCHANGED <<bufferVars, transportVars, rateVars, serverVars>>

\* the loop with the three steps of its rewind block told apart, next to the
\* request thread that calls rewind
NextRewind ==
    \/ \E f \in Frames : StartProcessing(f)
    \/ StopProcessing
    \/ \E p \in 1..(MaxEndFrame + 1) : Rewind(p)
    \/ LoopRewindTest
    \/ LoopRewindTag
    \/ LoopRewindClear
    \/ LoopSubmitBlock
    \/ LoopResult
    \/ LoopTick
    \/ \E f \in Frames : ProcessFrame(f)

NextScheduler ==
    \/ \E f \in Frames : StartProcessing(f)
    \/ StopProcessing
    \/ \E p \in 1..(MaxEndFrame + 1) : Rewind(p)
    \/ \E i \in Frames, m \in 0..1 : TimeLineGetFrame(i, m)
    \/ LoopSubmit
    \/ LoopResult
    \/ LoopTick
    \/ \E f \in Frames : ProcessFrame(f)
    \/ \E f \in Frames : ProcessFrameOutOfRange(f)
    \/ \E f \in Frames : ProcessFrameRaises(f)

(***************************************************************************)
(* RemoteProcessingModel: player_start, player_stop and the playback       *)
(* thread _show_frames                                                     *)
(***************************************************************************)
PlaybackThreads == 1..MaxPlaybackThreads

\* what has happened since a thread caught EOFError: nothing yet
NothingYet == [flag_cleared |-> FALSE, stop_asked |-> FALSE]

\* the playback threads that have caught EOFError and are still running
AfterEof == {t \in PlaybackThreads : eof[t] /\ show_pc[t] # "ended"}

\* the history of the threads in AfterEof, after a call of player_stop that
\* cleared the playback event or found it clear (or did neither), and that
\* asked the server to stop or found it asked to (or did neither)
Noted(flag_cleared, stop_asked) ==
    [t \in PlaybackThreads |->
        IF t \in AfterEof
        THEN [flag_cleared |-> after_eof[t].flag_cleared \/ flag_cleared,
              stop_asked |-> after_eof[t].stop_asked \/ stop_asked]
        ELSE after_eof[t]]

InitPlayer ==
    /\ event_playback = FALSE
    /\ show_frames_thread = 0
    /\ show_pc = [t \in PlaybackThreads |-> "new"]
    /\ gui_pc = "idle"
    /\ cursor = 0
    /\ last_command = "none"
    /\ threads_started = 0
    /\ eof = [t \in PlaybackThreads |-> FALSE]
    /\ after_eof = [t \in PlaybackThreads |-> NothingYet]

\* player_start(start_frame) while the player is not started: the timeline
\* is reloaded with the cursor before start_frame, the server is asked to
\* start, and __start_playback sets the playback event; a former thread is
\* joined next
PlayerStart(start_frame) ==
    /\ gui_pc = "idle"
    /\ ~event_playback
    /\ threads_started < MaxPlaybackThreads
    /\ cursor' = start_frame - 1
    /\ last_command' = "start"
    /\ event_playback' = TRUE
    /\ gui_pc' = IF show_frames_thread # 0 THEN "start_join" ELSE "start_thread"
    /\ UNCHANGED <<show_frames_thread, show_pc, threads_started, eof,
                   after_eof>>
    /\ UNCHANGED <<bufferVars, schedulerVars, channelVars, dispatchVars,
                   listenerVars>>

\* player_start while the player is started does nothing
PlayerStartStarted ==
    /\ gui_pc = "idle"
    /\ event_playback
    /\ UNCHANGED <<playerVars, listenerVars>>
    /\ UNCHANGED <<bufferVars, schedulerVars, channelVars, dispatchVars,
                   listenerVars>>

\* __start_playback: join(1) of the former thread has returned, the thread
\* ended or not; _show_frames_thread = None
StartJoin ==
    /\ gui_pc = "start_join"
    /\ show_frames_thread' = 0
    /\ gui_pc' = "start_thread"
    /\ UNCHANGED <<event_playback, show_pc, cursor, last_command,
                   threads_started, eof, after_eof>>
    /\ UNCHANGED <<bufferVars, schedulerVars, channelVars, dispatchVars,
                   listenerVars>>

\* __start_playback: the new thread is stored in _show_frames_thread and
\* started
StartThread ==
    /\ gui_pc = "start_thread"
    /\ threads_started' = threads_started + 1
    /\ show_frames_thread' = threads_started'
    /\ show_pc' = [show_pc EXCEPT ![threads_started'] = "test"]
    /\ gui_pc' = "idle"
    /\ UNCHANGED <<event_playback, cursor, last_command, eof, after_eof>>
    /\ UNCHANGED <<bufferVars, schedulerVars, channelVars, dispatchVars,
                   listenerVars>>

\* the body of player_stop up to the join: when the player is started the
\* server is asked to stop, and __stop_playback clears the playback event
\* when it is set and _show_frames_thread is not None
StopBody ==
    /\ last_command' = IF event_playback THEN "stop" ELSE last_command
    /\ event_playback' = (event_playback /\ show_frames_thread = 0)
    /\ after_eof' = Noted(~event_playback',
                          event_playback \/ last_command = "stop")

\* player_stop called by the thread that called player_start; it joins the
\* playback thread next when it cleared the event
PlayerStop ==
    /\ gui_pc = "idle"
    /\ StopBody
    /\ gui_pc' = IF event_playback /\ show_frames_thread # 0
                 THEN "stop_join" ELSE "idle"
    /\ UNCHANGED <<show_frames_thread, show_pc, cursor, threads_started, eof>>
    /\ UNCHANGED <<bufferVars, schedulerVars, channelVars, dispatchVars,
                   listenerVars>>

\* __stop_playback: join(1) of the playback thread has returned, the thread
\* ended or not; _show_frames_thread = None
StopJoin ==
    /\ gui_pc = "stop_join"
    /\ show_frames_thread' = 0
    /\ gui_pc' = "idle"
    /\ UNCHANGED <<event_playback, show_pc, cursor, last_command,
                   threads_started, eof, after_eof>>
    /\ UNCHANGED <<bufferVars, schedulerVars, channelVars, dispatchVars,
                   listenerVars>>

\* "while self._event_playback.is_set()" in the playback thread t
ShowFramesTest(t) ==
    /\ show_pc[t] = "test"
    /\ show_pc' = [show_pc EXCEPT ![t] = IF event_playback THEN "get"
                                         ELSE "finally"]
    /\ UNCHANGED <<event_playback, show_frames_thread, gui_pc, cursor,
                   last_command, threads_started, eof, after_eof>>
    /\ UNCHANGED <<bufferVars, schedulerVars, channelVars, dispatchVars,
                   listenerVars>>

\* TimeLine.get_frame called by the playback thread t: the cursor moves on by
\* the frames the time passed stands for; past end_frame with no frame
\* available it raises EOFError, else the frame (or None) is shown and the
\* thread sleeps
TimeLineGetFramePlayer(t, step, available) ==
    /\ show_pc[t] = "get"
    /\ cursor' = IF cursor + step > MaxEndFrame THEN MaxEndFrame + 1
                 ELSE cursor + step
    /\ IF cursor' > MaxEndFrame /\ ~available
       THEN /\ show_pc' = [show_pc EXCEPT ![t] = "eof"]
            /\ eof' = [eof EXCEPT ![t] = TRUE]
       ELSE /\ show_pc' = [show_pc EXCEPT ![t] = "test"]
            /\ UNCHANGED eof
    /\ UNCHANGED <<event_playback, show_frames_thread, gui_pc, last_command,
                   threads_started, after_eof>>
    /\ UNCHANGED <<bufferVars, schedulerVars, channelVars, dispatchVars,
                   listenerVars>>

\* player_stop called by the playback thread t, in "except EOFError" and in
\* "finally": it joins the thread in _show_frames_thread next when it
\* cleared the event and that thread is another one
ShowFramesStop(t) ==
    /\ show_pc[t] \in {"eof", "finally"}
    /\ StopBody
    /\ show_pc' =
           [show_pc EXCEPT ![t] =
               IF event_playback /\ show_frames_thread \notin {0, t}
               THEN IF show_pc[t] = "eof" THEN "eof_join" ELSE "finally_join"
               ELSE IF show_pc[t] = "eof" THEN "finally" ELSE "ended"]
    /\ UNCHANGED <<show_frames_thread, gui_pc, cursor, threads_started, eof>>
    /\ UNCHANGED <<bufferVars, schedulerVars, channelVars, dispatchVars,
                   listenerVars>>

\* __stop_playback in the playback thread t: join(1) of the other thread has
\* returned; _show_frames_thread = None
ShowFramesJoin(t) ==
    /\ show_pc[t] \in {"eof_join", "finally_join"}
    /\ show_frames_thread' = 0
    /\ show_pc' = [show_pc EXCEPT ![t] = IF show_pc[t] = "eof_join"
                                         THEN "finally" ELSE "ended"]
    /\ UNCHANGED <<event_playback, gui_pc, cursor, last_command,
                   threads_started, eof, after_eof>>
    /\ UNCHANGED <<bufferVars, schedulerVars, channelVars, dispatchVars,
                   listenerVars>>

\* the player: the thread of the user interface and the playback threads
NextPlayer ==
    \/ \E f \in 1..MaxEndFrame : PlayerStart(f)
    \/ PlayerStartStarted
    \/ StartJoin
    \/ StartThread
    \/ PlayerStop
    \/ StopJoin
    \/ \E t \in PlaybackThreads : ShowFramesTest(t)
    \/ \E t \in PlaybackThreads, step \in 1..2, available \in BOOLEAN :
           TimeLineGetFramePlayer(t, step, available)
    \/ \E t \in PlaybackThreads : ShowFramesStop(t)
    \/ \E t \in PlaybackThreads : ShowFramesJoin(t)

(***************************************************************************)
(* ZMQClientAPI: the notification listener thread and the subscription     *)
(* socket it reads                                                         *)
(***************************************************************************)
Notifications == 1..MaxNotifications

\* what the listener did with a notification: nothing yet, the handler
\* returned, or one of the errors the listener logs
Outcomes == {"delivered", "deserialize_raises", "handler_raises", "no_handler"}

InitListener ==
    /\ notification_running = FALSE
    /\ sub_socket = "none"
    /\ listener_pc = "new"
    /\ sub_queue = <<>>
    /\ published = 0
    /\ handled = [n \in Notifications |-> "none"]
    /\ listener_errors = 0

\* a listener that gives up at the first error
ListenerAfterErrorEnds == "ended"

\* the except clauses of _notification_listener log the error; the loop goes
\* on with the test of its condition
ListenerAfterError == "test"

\* start_notification_listener, called by connect: the socket is made and
\* connected, the flag is set, the thread is started
StartNotificationListener ==
    /\ listener_pc = "new"
    /\ sub_socket' = "open"
    /\ notification_running' = TRUE
    /\ listener_pc' = "test"
    /\ UNCHANGED <<sub_queue, published, handled, listener_errors>>
    /\ UNCHANGED <<bufferVars, schedulerVars, channelVars, dispatchVars,
                   lock, client_pc, client_request, req_socket, returned,
                   request_socket, replies_taken, playerVars>>

\* stop_notification_listener (disconnect calls it): the flag is cleared, the
\* thread is joined for a second, the socket is closed and set to None
StopNotificationListener ==
    /\ notification_running
    /\ notification_running' = FALSE
    /\ sub_socket' = "none"
    /\ sub_queue' = <<>>
    /\ UNCHANGED <<listener_pc, published, handled, listener_errors>>
    /\ UNCHANGED <<bufferVars, schedulerVars, channelVars, dispatchVars,
                   lock, client_pc, client_request, req_socket, returned,
                   request_socket, replies_taken, playerVars>>

\* ZMQServerAPI.notify: the notification reaches the subscription socket if
\* there is one
Notify ==
    /\ published < MaxNotifications
    /\ published' = published + 1
    /\ sub_queue' = IF sub_socket = "open"
                    THEN Append(sub_queue, published + 1)
                    ELSE sub_queue
    /\ UNCHANGED <<notification_running, sub_socket, listener_pc, handled,
                   listener_errors>>
    /\ UNCHANGED <<bufferVars, schedulerVars, channelVars, dispatchVars,
                   lock, client_pc, client_request, req_socket, returned,
                   request_socket, replies_taken, playerVars>>

\* while self._notification_running:
ListenerTest ==
    /\ listener_pc = "test"
    /\ listener_pc' = IF notification_running THEN "poll" ELSE "ended"
    /\ UNCHANGED <<notification_running, sub_socket, sub_queue, published,
                   handled, listener_errors>>
    /\ UNCHANGED <<bufferVars, schedulerVars, channelVars, dispatchVars,
                   lock, client_pc, client_request, req_socket, returned,
                   request_socket, replies_taken, playerVars>>

\* poll(timeout=100) finds nothing
ListenerPollTimeout ==
    /\ listener_pc = "poll"
    /\ sub_socket = "open"
    /\ sub_queue = <<>>
    /\ listener_pc' = "test"
    /\ UNCHANGED <<notification_running, sub_socket, sub_queue, published,
                   handled, listener_errors>>
    /\ UNCHANGED <<bufferVars, schedulerVars, channelVars, dispatchVars,
                   lock, client_pc, client_request, req_socket, returned,
                   request_socket, replies_taken, playerVars>>

\* the socket is None ("Subscription socket is not initialized"), or poll or
\* recv raise ZMQError: the error is logged, no notification is taken
ListenerReceiveRaises ==
    /\ listener_pc = "poll"
    /\ \/ sub_socket = "none" /\ UNCHANGED listener_errors
       \/ /\ sub_socket = "open"
          /\ listener_errors < MaxListenerErrors
          /\ listener_errors' = listener_errors + 1
    /\ listener_pc' = ListenerAfterError
    /\ UNCHANGED <<notification_running, sub_socket, sub_queue, published,
                   handled>>
    /\ UNCHANGED <<bufferVars, schedulerVars, channelVars, dispatchVars,
                   lock, client_pc, client_request, req_socket, returned,
                   request_socket, replies_taken, playerVars>>

\* recv() takes the notification; deserialize raises, or _handle_notification
\* finds no handler, or the handler raises (_handle_notification logs it), or
\* the handler returns
ListenerReceive(outcome) ==
    /\ listener_pc = "poll"
    /\ sub_socket = "open"
    /\ sub_queue # <<>>
    /\ sub_queue' = Tail(sub_queue)
    /\ handled' = [handled EXCEPT ![Head(sub_queue)] = outcome]
    /\ listener_pc' = IF outcome = "deserialize_raises"
                      THEN ListenerAfterError ELSE "test"
    /\ UNCHANGED <<notification_running, sub_socket, published,
                   listener_errors>>
    /\ UNCHANGED <<bufferVars, schedulerVars, channelVars, dispatchVars,
                   lock, client_pc, client_request, req_socket, returned,
                   request_socket, replies_taken, playerVars>>

\* the steps of the listener thread
ListenerStep ==
    \/ ListenerTest
    \/ ListenerPollTimeout
    \/ ListenerReceiveRaises
    \/ \E outcome \in Outcomes : ListenerReceive(outcome)

NextListener ==
    \/ StartNotificationListener
    \/ StopNotificationListener
    \/ Notify
    \/ ListenerTest
    \/ ListenerPollTimeout
    \/ ListenerReceiveRaises
    \/ \E outcome \in Outcomes : ListenerReceive(outcome)

(***************************************************************************)
(* ZMQServerAPI._message_handler: the request/reply loop                   *)
(***************************************************************************)
Requests == 1..MaxRequests

\* no request is being handled
NoRequestMessage ==
    [id |-> 0, malformed |-> FALSE, type |-> "NONE", value |-> 0]

\* a response that carries its status only
NoFields == [message |-> "", quality |-> -1,
             resolution |-> <<0, 0>>, render_resolution |-> <<0, 0>>]

\* no response was sent
NoAnswer == [status |-> "none", fields |-> NoFields]

\* RequestMessage(type, ...) with the number the model knows it by
RequestMessage(id, malformed, type, value) ==
    [id |-> id, malformed |-> malformed, type |-> type, value |-> value]

\* a client sends the next message to the reply endpoint: the parts of a
\* request, or parts that are none
ClientSend(malformed) ==
    /\ requests_sent < MaxRequests
    /\ requests_sent' = requests_sent + 1
    /\ request_queue' =
           Append(request_queue,
                  RequestMessage(requests_sent + 1, malformed, "GET_STATUS", 0))
    /\ request_log' =
           Append(request_log,
                  RequestMessage(requests_sent + 1, malformed, "GET_STATUS", 0))
    /\ UNCHANGED <<server_pc, current_request, response, responses_sent,
                   reply_pending, zmq_errors, response_fields, answers>>
    /\ UNCHANGED <<bufferVars, schedulerVars, clientVars>>

\* recv_multipart hands over the next request; the REP socket owes its reply
\* from now on
RecvMultipart ==
    /\ server_pc = "recv"
    /\ ~reply_pending
    /\ request_queue # <<>>
    /\ current_request' = Head(request_queue)
    /\ request_queue' = Tail(request_queue)
    /\ reply_pending' = TRUE
    /\ server_pc' = "deserialize"
    /\ UNCHANGED <<requests_sent, response, responses_sent, zmq_errors>>
    /\ UNCHANGED dispatchVars
    /\ UNCHANGED <<bufferVars, schedulerVars, clientVars>>

\* recv_multipart on a REP socket that still owes a reply raises ZMQError
\* (not EAGAIN): the loop logs it and starts over
RecvMultipartFails ==
    /\ server_pc = "recv"
    /\ reply_pending
    /\ zmq_errors < MaxZmqErrors
    /\ zmq_errors' = zmq_errors + 1
    /\ UNCHANGED <<requests_sent, request_queue, server_pc, current_request,
                   response, responses_sent, reply_pending>>
    /\ UNCHANGED dispatchVars
    /\ UNCHANGED <<bufferVars, schedulerVars, clientVars>>

\* RequestMessage.deserialize_multipart builds the request
Deserialize ==
    /\ server_pc = "deserialize"
    /\ ~current_request.malformed
    /\ server_pc' = "handle"
    /\ UNCHANGED <<requests_sent, request_queue, current_request, response,
                   responses_sent, reply_pending, zmq_errors>>
    /\ UNCHANGED dispatchVars
    /\ UNCHANGED <<bufferVars, schedulerVars, clientVars>>

\* the "except Exception" branch: the error is logged, the loop sleeps and
\* starts over; nothing is sent
LogError ==
    /\ server_pc' = "recv"
    /\ current_request' = NoRequestMessage
    /\ response' = "none"
    /\ response_fields' = NoFields
    /\ UNCHANGED <<requests_sent, request_queue, responses_sent,
                   reply_pending, zmq_errors, request_log, answers>>

\* deserialize_multipart raises on a malformed message
DeserializeRaises ==
    /\ server_pc = "deserialize"
    /\ current_request.malformed
    /\ LogError
    /\ UNCHANGED <<bufferVars, schedulerVars, clientVars>>

\* _handle_request returns the handler's response (ok, or an error response
\* such as "Not implemented"), or the error response "Handler is not defined"
HandleRequest(result) ==
    /\ server_pc = "handle"
    /\ response' = result
    /\ response_fields' = NoFields
    /\ server_pc' = "send"
    /\ UNCHANGED <<requests_sent, request_queue, current_request,
                   responses_sent, reply_pending, zmq_errors>>
    /\ UNCHANGED <<request_log, answers>>
    /\ UNCHANGED <<bufferVars, schedulerVars, clientVars>>

\* the request handler raises (extract_frame raises EOutOfRange for GET_FRAME
\* of a position past the last frame, for one)
HandleRequestRaises ==
    /\ server_pc = "handle"
    /\ LogError
    /\ UNCHANGED <<bufferVars, schedulerVars, clientVars>>

\* serialize_multipart and send_multipart: the response goes back
SendMultipart ==
    /\ server_pc = "send"
    /\ responses_sent' = [responses_sent EXCEPT ![current_request.id] = @ + 1]
    /\ reply_pending' = FALSE
    /\ server_pc' = "recv"
    /\ current_request' = NoRequestMessage
    /\ response' = "none"
    /\ answers' = [answers EXCEPT ![current_request.id] =
                       [status |-> response, fields |-> response_fields]]
    /\ response_fields' = NoFields
    /\ UNCHANGED <<requests_sent, request_queue, zmq_errors, request_log>>
    /\ UNCHANGED <<bufferVars, schedulerVars, clientVars>>

(***************************************************************************)
(* ZMQClientAPI.send_request: the client's side of the request channel     *)
(***************************************************************************)
\* what send_request returned for a request: nothing yet, the error
\* response, or the reply to the request of that number
NotReturned == 0
ErrorResponse == MaxRequests + 1

\* a _recreate_socket that keeps the socket it has
KeepSocket == req_socket' = req_socket

\* _recreate_socket: the socket is closed with linger = 0 and a new REQ
\* socket is connected; what is on its way to the closed socket is dropped
RecreateSocket == req_socket' = req_socket + 1

\* the threads of the client that call send_request
Callers == 1..MaxCallers

\* a send_request that does not wait for the lock
LockIgnored == TRUE

\* "with self._lock": the thread goes on when no thread holds the lock
LockFree == lock = 0

\* send_request called by the thread caller: it takes the lock, serializes
\* the request and sends it on the REQ socket; then it waits in
\* recv_multipart
SendRequest(caller) ==
    /\ LockFree
    /\ lock' = caller
    /\ requests_sent < MaxRequests
    /\ requests_sent' = requests_sent + 1
    /\ request_queue' =
           Append(request_queue,
                  RequestMessage(requests_sent + 1, FALSE, "GET_STATUS", 0))
    /\ request_log' =
           Append(request_log,
                  RequestMessage(requests_sent + 1, FALSE, "GET_STATUS", 0))
    /\ UNCHANGED <<response_fields, answers>>
    /\ UNCHANGED <<playerVars, listenerVars>>
    /\ client_request' = requests_sent + 1
    /\ request_socket' =
           [request_socket EXCEPT ![requests_sent + 1] = req_socket]
    /\ client_pc' = "recv"
    /\ UNCHANGED <<server_pc, current_request, response, responses_sent,
                   reply_pending, zmq_errors>>
    /\ UNCHANGED <<req_socket, returned, replies_taken>>
    /\ UNCHANGED <<bufferVars, schedulerVars>>

\* recv_multipart returns the reply that reached the REQ socket: the server
\* sent it to the socket the request r came from, and that is still the
\* client's socket; send_request returns it
ReceiveReply(r) ==
    /\ client_pc = "recv"
    /\ responses_sent[r] > 0
    /\ r \notin replies_taken
    /\ request_socket[r] = req_socket
    /\ replies_taken' = replies_taken \cup {r}
    /\ returned' = [returned EXCEPT ![client_request] = r]
    /\ client_pc' = "idle"
    /\ lock' = 0
    /\ UNCHANGED <<requests_sent, request_queue, server_pc, current_request,
                   response, responses_sent, reply_pending, zmq_errors>>
    /\ UNCHANGED <<client_request, req_socket, request_socket>>
    /\ UNCHANGED <<dispatchVars, playerVars, listenerVars>>
    /\ UNCHANGED <<bufferVars, schedulerVars>>

\* recv_multipart raises ZMQError with EAGAIN after RCVTIMEO: the socket is
\* recreated and send_request returns the error response
Timeout ==
    /\ client_pc = "recv"
    /\ RecreateSocket
    /\ returned' = [returned EXCEPT ![client_request] = ErrorResponse]
    /\ client_pc' = "idle"
    /\ lock' = 0
    /\ UNCHANGED <<requests_sent, request_queue, server_pc, current_request,
                   response, responses_sent, reply_pending, zmq_errors>>
    /\ UNCHANGED <<client_request, request_socket, replies_taken>>
    /\ UNCHANGED <<dispatchVars, playerVars, listenerVars>>
    /\ UNCHANGED <<bufferVars, schedulerVars>>

InitTransport ==
    /\ requests_sent = 0
    /\ request_queue = <<>>
    /\ server_pc = "recv"
    /\ current_request = NoRequestMessage
    /\ response = "none"
    /\ responses_sent = [r \in Requests |-> 0]
    /\ reply_pending = FALSE
    /\ zmq_errors = 0
    /\ lock = 0
    /\ client_pc = "idle"
    /\ client_request = 0
    /\ req_socket = 1
    /\ returned = [r \in Requests |-> NotReturned]
    /\ request_socket = [r \in Requests |-> 0]
    /\ replies_taken = {}
    /\ response_fields = NoFields
    /\ request_log = <<>>
    /\ answers = [r \in Requests |-> NoAnswer]
    /\ InitPlayer
    /\ InitListener

NextTransport ==
    \/ \E malformed \in BOOLEAN : ClientSend(malformed)
    \/ RecvMultipart
    \/ RecvMultipartFails
    \/ Deserialize
    \/ DeserializeRaises
    \/ \E result \in {"ok", "error"} : HandleRequest(result)
    \/ HandleRequestRaises
    \/ SendMultipart

\* one client's calls of send_request and the server's request loop
NextClient ==
    \/ \E c \in Callers : SendRequest(c)
    \/ \E r \in Requests : ReceiveReply(r)
    \/ Timeout
    \/ RecvMultipart
    \/ RecvMultipartFails
    \/ Deserialize
    \/ \E result \in {"ok", "error"} : HandleRequest(result)
    \/ HandleRequestRaises
    \/ SendMultipart

(***************************************************************************)
(* FrameProcessingServer._handle_request: the response to each kind of     *)
(* request, for the kinds that read or set the quality, GET_STATUS and the *)
(* kinds the match statement has no case for                               *)
(***************************************************************************)
\* the percents a SET_QUALITY request carries
Qualities == {0, 33, 50, 100}

\* frame_handler.resolution of the targets: width and height
Resolutions == {<<3, 2>>, <<640, 360>>}

\* the request types sent in this part; "UNKNOWN" stands for every type the
\* match statement has no case for
RequestTypes ==
    {"GET_STATUS", "SET_QUALITY", "GET_QUALITY", "GET_METADATA", "UNKNOWN"}

\* int(n / d) rounding up instead
IntTrueDivRoundedUp(n, d) == -((-n) \div d)

\* int(n / d) for d > 0: the quotient, truncated towards zero
IntTrueDiv(n, d) == IF n >= 0 THEN n \div d ELSE -((-n) \div d)

\* the render resolution GET_METADATA computes from the resolution
RenderResolution(resolution) ==
    <<IntTrueDiv(resolution[1] * scale_quality, 100),
      IntTrueDiv(resolution[2] * scale_quality, 100)>>

\* a client sends a well-formed request of the given type
ClientRequest(type, value) ==
    /\ requests_sent < MaxRequests
    /\ requests_sent' = requests_sent + 1
    /\ request_queue' =
           Append(request_queue,
                  RequestMessage(requests_sent + 1, FALSE, type, value))
    /\ request_log' =
           Append(request_log,
                  RequestMessage(requests_sent + 1, FALSE, type, value))
    /\ UNCHANGED <<server_pc, current_request, response, responses_sent,
                   reply_pending, zmq_errors, response_fields, answers>>
    /\ UNCHANGED <<bufferVars, schedulerVars, clientVars>>

\* the handler returns a response: _message_handler goes on to send it
Respond(status, fields) ==
    /\ response' = status
    /\ response_fields' = fields
    /\ server_pc' = "send"
    /\ UNCHANGED <<requests_sent, request_queue, current_request,
                   responses_sent, reply_pending, zmq_errors, request_log,
                   answers>>
    /\ UNCHANGED <<bufferVars, clientVars>>

\* case GET_STATUS
HandleGetStatus ==
    /\ server_pc = "handle"
    /\ current_request.type = "GET_STATUS"
    /\ Respond("ok", [NoFields EXCEPT !.message = "Alive"])
    /\ UNCHANGED schedulerVars

\* case SET_QUALITY: the quality setter stores request.quality
HandleSetQuality ==
    /\ server_pc = "handle"
    /\ current_request.type = "SET_QUALITY"
    /\ scale_quality' = current_request.value
    /\ Respond("ok", [NoFields EXCEPT !.message = "Quality set"])
    /\ UNCHANGED <<execution_threads, event_processing, event_rewind, loop_pc,
                   next_frame, processing, futures, future_state, waiting_for,
                   processing_delta, average_frame_skip, timeline_frames,
                   last_added_index, last_requested_index, current_frame_miss,
                   rateVars, source_path, target_path, notified, threadVars>>

\* case GET_QUALITY: the response carries the quality property
HandleGetQuality ==
    /\ server_pc = "handle"
    /\ current_request.type = "GET_QUALITY"
    /\ Respond("ok", [NoFields EXCEPT !.message = "Quality",
                                      !.quality = scale_quality])
    /\ UNCHANGED schedulerVars

\* case GET_METADATA: the response carries the resolution of the target and
\* the render resolution computed from it
HandleGetMetadata(resolution) ==
    /\ server_pc = "handle"
    /\ current_request.type = "GET_METADATA"
    /\ Respond("ok", [NoFields EXCEPT
                          !.message = "METADATA",
                          !.resolution = resolution,
                          !.render_resolution = RenderResolution(resolution)])
    /\ UNCHANGED schedulerVars

\* a default case that returns nothing: the response cannot be serialized,
\* the error is logged and nothing is sent
DefaultCaseDropped ==
    /\ LogError
    /\ UNCHANGED <<bufferVars, clientVars>>

\* case _: the error response "Not implemented: <type>"
DefaultCase ==
    Respond("error", [NoFields EXCEPT !.message = "Not implemented"])

\* a request of a type the match statement has no case for
HandleNotImplemented ==
    /\ server_pc = "handle"
    /\ current_request.type = "UNKNOWN"
    /\ DefaultCase
    /\ UNCHANGED schedulerVars

\* the clients' requests, the request loop and the request handler
NextDispatch ==
    \/ \E type \in RequestTypes \ {"SET_QUALITY"} : ClientRequest(type, 0)
    \/ \E q \in Qualities : ClientRequest("SET_QUALITY", q)
    \/ RecvMultipart
    \/ Deserialize
    \/ HandleGetStatus
    \/ HandleSetQuality
    \/ HandleGetQuality
    \/ \E resolution \in Resolutions : HandleGetMetadata(resolution)
    \/ HandleNotImplemented
    \/ SendMultipart

(***************************************************************************)
(* The specifications                                                      *)
(***************************************************************************)
\* the buffer at work, the scheduling loop never started, no request sent
Init ==
    InitBuffer /\ InitScheduler /\ execution_threads = 1 /\ fps = 1 /\ InitTransport

Next == NextBuffer

Spec == Init /\ [][Next]_vars

\* a consumer takes a frame that is in memory
ConsumerRemoves ==
    \E i \in FrameIndices, p \in BOOLEAN :
        i \in DOMAIN memory_buffer /\ GetFrameCall(i, p)

\* the buffer under fair scheduling: a woken producer runs, a get_frame that
\* went to the disk returns, and consumers take a frame from memory again and
\* again as long as there is one
SpecFair ==
    /\ Spec
    /\ WF_vars(AddFrameWake)
    /\ WF_vars(GetFrameDisk)
    /\ SF_vars(ConsumerRemoves)

\* the processing side, another process on the same temporary directory,
\* has written the file of frame index
ServerWritesFile(index) ==
    /\ files' = files \cup {index}
    /\ UNCHANGED <<buffer_size_bytes, memory_buffer, frame_sizes,
                   current_buffer_size_bytes, indices, loaded, miss,
                   pending_writes, add_pc, add_arg, get_pc, get_arg, get_result,
                   added, session_added>>
    /\ UNCHANGED <<schedulerVars, transportVars, sessionVars,
                   indexVars, writerVars, lockVars>>

\* the buffer of the player: it is loaded, the indices are listed by
\* add_index when the notifications come in, the files are written by the
\* processing side, get_frame looks the frames up
NextLookup ==
    \/ Load
    \/ \E i \in 1..MaxLookupIndex : AddIndex(i)
    \/ \E i \in 1..MaxLookupIndex : ServerWritesFile(i)
    \/ \E r \in 1..MaxLookupIndex, p \in BOOLEAN : GetFrameCall(r, p)
    \/ GetFrameDisk

SpecLookup == Init /\ [][NextLookup]_vars

\* the buffer with callers that pass remove_earlier_frames to get_frame
NextEviction ==
    \/ NextBuffer
    \/ \E i \in FrameIndices : GetFrameRemoveEarlier(i)

SpecEviction == Init /\ [][NextEviction]_vars

\* the scheduling loop at work on an idle buffer
InitSchedulerSpec ==
    /\ InitScheduler /\ fps = 1
    /\ InitBuffer /\ buffer_size_bytes = 0
    /\ InitTransport

SpecScheduler == InitSchedulerSpec /\ [][NextScheduler]_vars

\* the rewind block of the loop against the requests that rewind
SpecRewind == InitSchedulerSpec /\ [][NextRewind]_vars

\* the end-to-end scenario: one worker, uniform fast transforms that never
\* fail, start(1), nobody rewinds or stops, the player asks for frames once
\* the loop has finished
InitEndToEnd ==
    /\ InitScheduler /\ execution_threads = 1
    /\ InitBuffer /\ buffer_size_bytes = 0
    /\ InitTransport

NextEndToEnd ==
    \/ StartProcessing(1)
    \/ LoopSubmit
    \/ LoopResult
    \/ LoopTickMeasured
    \/ \E f \in Frames : ProcessFrameReturns(f)
    \/ \E f \in Frames : ProcessDone(f)
    \/ \E i \in Frames, m \in 0..1 :
           loop_pc = "finished" /\ TimeLineGetFrame(i, m)

SpecEndToEnd == InitEndToEnd /\ [][NextEndToEnd]_vars

\* the server at work: the requests that change its state, the loop and one
\* worker
InitServer ==
    /\ InitScheduler /\ execution_threads = 1 /\ fps = 1
    /\ InitBuffer /\ buffer_size_bytes = 0
    /\ InitTransport

SpecServer == InitServer /\ [][NextServer]_vars

\* the loop and its workers at work, each done callback a step of its own
SpecWorkers == InitSchedulerSpec /\ [][NextWorkers]_vars

\* start and stop requests and the threads they start and leave behind
SpecLoops == InitSchedulerSpec /\ [][NextLoops]_vars

\* the buffer loaded with one source/target pair after the other
SpecSessions == InitSchedulerSpec /\ [][NextSessions]_vars

\* threads in the methods of the buffer, by their steps at its locks
SpecLocks == InitSchedulerSpec /\ [][NextLocks]_vars

\* threads that construct image writers
SpecSingleton == InitSchedulerSpec /\ [][NextSingleton]_vars

\* the index list and the callers of get_indices
SpecIndexList == InitSchedulerSpec /\ [][NextIndexList]_vars

\* the request/reply loop at work
InitTransportSpec ==
    /\ InitTransport
    /\ InitBuffer /\ buffer_size_bytes = 0
    /\ InitScheduler /\ execution_threads = 1 /\ fps = 1

SpecTransport == InitTransportSpec /\ [][NextTransport]_vars

\* a client and the server's request loop at work
SpecClient == InitTransportSpec /\ [][NextClient]_vars

\* the notification listener at work
SpecListener == InitTransportSpec /\ [][NextListener]_vars

\* the listener thread is scheduled again and again
SpecListenerFair == SpecListener /\ WF_vars(ListenerStep)

\* the player at work
SpecPlayer == InitTransportSpec /\ [][NextPlayer]_vars

\* the request handler at work on the requests of the clients
SpecDispatch == InitTransportSpec /\ [][NextDispatch]_vars

(***************************************************************************)
(* Properties of the buffer                                                *)
(***************************************************************************)
\* the step in which the call add_frame(index) returns
AddFrameReturns(index) ==
    \/ AddFrameSubmit /\ add_arg.index = index
    \/ AddFrameWake /\ add_arg.index = index /\ add_pc' = "idle"
    \/ \E s \in FrameSizes : AddFrameCall(index, s) /\ add_pc' = "idle"

\* add_frame(index) has returned on the loaded buffer since the last load /
\* flush
AddFrameReturned(index) ==
    index \in session_added /\ (add_pc = "idle" \/ add_arg.index # index)

\* the write of index, submitted by an add_frame that returned in this
\* session, has run and left no file
WriteFailed(index) ==
    /\ AddFrameReturned(index)
    /\ pending_writes[index] = 0
    /\ index \notin files

\* the last call of get_frame returned a frame
GotFrame == get_pc = "idle" /\ get_result.frame.found

C5_ZeroLimitNeverWaits ==
    buffer_size_bytes = 0 => add_pc \notin {"wait", "woken"}

\* C6: with a positive memory limit, a frame that does not fit is not kept
\* waiting for room (it goes to the disk only and add_frame returns)
C6_NoFitNeverWaits ==
    (buffer_size_bytes > 0 /\ add_pc # "idle" /\ BufferFull(add_arg.size))
        => add_pc \notin {"wait", "woken"}

C8_FailedWriteNotListed ==
    \A i \in FrameIndices : WriteFailed(i) => i \notin GetIndices

C10_MissIsDistance ==
    GotFrame => miss = get_result.requested - get_result.frame.index

\* C10: a substitute was returned and the recorded miss is positive
C10_Witness ==
    /\ GotFrame
    /\ miss > 0
    /\ miss = get_result.requested - get_result.frame.index

(***************************************************************************)
(* Properties of the scheduling loop                                       *)
(***************************************************************************)
\* the step in which the loop takes next_frame from the rewind event
RewindApplied == LoopSubmit /\ event_rewind.set

\* the step in which the loop computes the step and advances next_frame
Tick == LoopTick /\ event_processing

\* C2: but for the start of a loop and the application of a rewind, no step
\* lowers next_frame, and every tick raises it, by
\* max(1, floor(average frame skip) + processing_delta)
C2_CursorStrictlyIncreases ==
    [][\/ \E f \in Frames : StartProcessing(f)
       \/ RewindApplied
       \/ /\ next_frame' >= next_frame
          /\ Tick =>
                 /\ next_frame' > next_frame
                 /\ next_frame' - next_frame =
                        (IF (average_frame_skip' \div 2) + processing_delta' < 1
                         THEN 1
                         ELSE (average_frame_skip' \div 2) + processing_delta')
      ]_vars

\* C2: the last tick found floor(average) + processing_delta below 1 and moved
\* next_frame past the end by the step 1
C2_Witness ==
    /\ loop_pc = "finished"
    /\ next_frame = MaxEndFrame + 1
    /\ (average_frame_skip \div 2) + processing_delta < 1

\* C3: a future whose _process_frame raised does not end the loop thread and
\* does not stay in the list futures
C3_FailureIsContained ==
    /\ loop_pc # "crashed"
    /\ \A f \in Frames : future_state[f] = "failed" => f \notin InFutures

(***************************************************************************)
(* Properties of the request/reply loop                                    *)
(***************************************************************************)
\* the loop has taken the request and is done with it
Handled(request) ==
    /\ request <= requests_sent
    /\ request \notin {request_queue[k].id : k \in 1..Len(request_queue)}
    /\ request # current_request.id

\* C1: for every request the loop has taken and is done with, exactly one
\* response was sent back
C1_ExactlyOneResponse ==
    \A r \in Requests : Handled(r) => responses_sent[r] = 1

(***************************************************************************)
(* Properties of the lookup of a previous frame                            *)
(***************************************************************************)
\* the indices below index that are listed and have their file on the disk
StoredBelow(index) ==
    {p \in 0..(index - 1) : DirHasIndex(p) /\ p \in files}

\* the step in which get_frame answers from the disk for an index that the
\* loaded buffer holds neither in memory nor in its list
AbsentLookup ==
    /\ GetFrameDisk
    /\ loaded
    /\ ~HasIndex(get_arg.index)

\* C11: a lookup of an absent index with return_previous returns the frame of
\* the greatest stored index below it, whatever stored indices >= 0 there are,
\* and without return_previous it returns None
C11_GreatestStoredBelow ==
    [][AbsentLookup =>
           IF get_arg.return_previous /\ StoredBelow(get_arg.index) # {}
           THEN get_result'.frame =
                    NumberedFrame(SetMax(StoredBelow(get_arg.index)))
           ELSE get_result'.frame = None]_vars

(***************************************************************************)
(* Properties of the end-to-end scenario                                   *)
(***************************************************************************)
\* C12: once the loop started by start(1) has finished, every frame
\* 1..end_frame is in the timeline: the step has skipped none
C12_EveryFrameProcessed ==
    loop_pc = "finished" => \A f \in 1..MaxEndFrame : f \in timeline_frames

(***************************************************************************)
(* Properties of the server's requests                                     *)
(***************************************************************************)
\* a SET_SOURCE, SET_TARGET or SET_QUALITY request is served
SetRequest ==
    \E v \in Settings : SetSource(v) \/ SetTarget(v) \/ SetQuality(v)

\* C13: a SET_SOURCE, SET_TARGET or SET_QUALITY request served while the
\* server is processing stops the processing: afterwards the processing
\* event is not set
C13_SettingChangeStopsProcessing ==
    [][event_processing /\ SetRequest => ~event_processing']_vars

\* C14: once the loop has ended because next_frame passed end_frame, the
\* processing event is not set (so that start() starts a new loop)
C14_EndOfStreamClearsFlag ==
    loop_pc = "finished" => ~event_processing

\* the frames whose future is submitted and not finished
Unfinished == {f \in Frames : future_state[f] = "running"}

\* C15: once the processing event is cleared the loop submits no further
\* frame
C15_NoSubmitAfterStop ==
    [][~event_processing /\ ~event_processing'
           => Unfinished' \subseteq Unfinished]_vars

\* C16: the step of the loop that finds the rewind event set moves
\* next_frame to the tag, whatever it was, clears the event, and leaves in
\* processing no frame that lies before the new next_frame
C16_RewindMovesCursorAndClears ==
    [][RewindApplied =>
           /\ next_frame' = event_rewind.tag
           /\ ~event_rewind'.set
           /\ \A f \in processing' : f >= next_frame']_vars

\* C17: never more than execution_threads frames are submitted and not
\* finished
C17_UnfinishedWithinThreads ==
    Cardinality(Unfinished) <= execution_threads

\* the frames the loop submitted and whose future ended without a frame in
\* the timeline: extract_frame raised EOutOfRange for them
SkippedFrames ==
    {f \in Frames : future_state[f] = "done" /\ f \notin timeline_frames}

C19_CompletedFrameIsNotified ==
    \A f \in timeline_frames : f \in notified

(***************************************************************************)
(* Properties of the client's side of the request channel                  *)
(***************************************************************************)
\* the requests whose send_request ended with a timeout
TimedOut == {r \in Requests : returned[r] = ErrorResponse}

\* C20: the socket of a request that timed out is not the client's socket
\* any more; a reply that send_request returns is the reply to the request
\* it was called with; and between two calls the client's socket has no
\* request without its reply
C20_TimeoutLeavesCleanChannel ==
    /\ \A r \in TimedOut : request_socket[r] # req_socket
    /\ \A r \in Requests :
           returned[r] \notin {NotReturned, ErrorResponse} => returned[r] = r
    /\ client_pc = "idle" =>
           \A r \in Requests :
               request_socket[r] = req_socket => r \in replies_taken

\* C20: a request timed out, the server sent its reply afterwards all the
\* same, and a later request was answered with its own reply
C20_Witness ==
    \E r \in TimedOut, q \in Requests :
        /\ r < q
        /\ responses_sent[r] > 0
        /\ returned[q] = q

\* the requests sent for which send_request has not returned
InFlight ==
    {r \in Requests : request_socket[r] # 0 /\ returned[r] = NotReturned}

\* C21: at most one request of the client is sent and without its outcome,
\* and it is the request of the thread that holds the lock
C21_OneRequestInFlight ==
    /\ Cardinality(InFlight) <= 1
    /\ InFlight # {} => lock # 0 /\ InFlight = {client_request}

\* C21: the second thread is waiting for its reply after the request of the
\* first one has got its outcome
C21_Witness ==
    /\ lock = 2
    /\ client_pc = "recv"
    /\ InFlight = {client_request}
    /\ \E r \in Requests : r < client_request /\ returned[r] # NotReturned

\* the bytes of the frames a dictionary holds under the keys of S
RECURSIVE BytesOf(_, _)
BytesOf(d, S) ==
    IF S = {} THEN 0
    ELSE LET k == CHOOSE x \in S : TRUE
         IN  d[k] + BytesOf(d, S \ {k})

\* the bytes of the frames held in _memory_buffer
MemoryBytes == BytesOf(memory_buffer, DOMAIN memory_buffer)

\* C25: the bytes of the frames held in the memory map never exceed the
\* configured limit, whatever add_frame, get_frame, flush and load do; the
\* byte counter the wait loop tests is never below them
C25_MemoryWithinLimit ==
    /\ MemoryBytes <= buffer_size_bytes
    /\ MemoryBytes <= current_buffer_size_bytes
    /\ current_buffer_size_bytes <= buffer_size_bytes

\* the memory map holds two frames that fill the limit, a get_frame has
\* handed a frame out, and an add_frame waits for room
C25_Witness ==
    /\ Cardinality(DOMAIN memory_buffer) = 2
    /\ MemoryBytes = buffer_size_bytes
    /\ add_pc = "wait"
    /\ get_result.frame.found

\* C26: at most one thread runs the scheduling loop at any time, whatever
\* start and stop requests arrive, and a loop that was running when a stop
\* cleared the processing event never goes on scheduling
C26_OneSchedulingLoop ==
    /\ Cardinality(Alive) <= 1
    /\ resumed = {}

(***************************************************************************)
(* Properties of the request handler                                       *)
(***************************************************************************)
\* the requests sent so far whose type the match statement has no case for
NotImplemented ==
    {r \in 1..Len(request_log) : request_log[r].type = "UNKNOWN"}

\* the request r waits at the reply socket or is being handled
Outstanding(r) ==
    \/ \E k \in 1..Len(request_queue) : request_queue[k].id = r
    \/ current_request.id = r

\* C22: a request of a kind that is not implemented is answered with the
\* explicit error response "Not implemented" and is never dropped: once the
\* request loop is done with it, exactly one response was sent for it, the
\* error; and the step that handles it goes on to the send and changes
\* nothing of the server's state
C22_NotImplementedIsAnswered ==
    /\ [](\A r \in NotImplemented :
            \/ Outstanding(r) /\ responses_sent[r] = 0
            \/ /\ responses_sent[r] = 1
               /\ answers[r].status = "error"
               /\ answers[r].fields.message = "Not implemented")
    /\ [][(server_pc = "handle" /\ current_request.type = "UNKNOWN"
               /\ server_pc' # "handle")
            => /\ server_pc' = "send"
               /\ response' = "error"
               /\ response_fields'.message = "Not implemented"
               /\ UNCHANGED <<schedulerVars, bufferVars>>]_vars

\* a request of an unknown type was answered after a SET_QUALITY had changed
\* the server's state
C22_Witness ==
    \E r \in NotImplemented :
        /\ responses_sent[r] = 1
        /\ answers[r].status = "error"
        /\ scale_quality # DefaultQuality

\* the requests a < b, both sent, with no SET_QUALITY between them
QualityHolds(a, b) ==
    /\ a < b
    /\ b <= Len(request_log)
    /\ request_log[a].type = "SET_QUALITY"
    /\ request_log[a].value \in 0..100
    /\ \A c \in (a + 1)..(b - 1) : request_log[c].type # "SET_QUALITY"
    /\ answers[b] # NoAnswer

\* r is the floor of n * q / 100
IsFloorOfPercent(r, n, q) == r * 100 <= n * q /\ n * q < (r + 1) * 100

\* C23: after SET_QUALITY(q) with q in 0..100, GET_QUALITY returns q and
\* GET_METADATA reports the render resolution floor(resolution * q / 100) in
\* both dimensions
C23_QualityRoundTrip ==
    \A a, b \in Requests :
        QualityHolds(a, b) =>
            /\ request_log[b].type = "GET_QUALITY"
                   => answers[b].fields.quality = request_log[a].value
            /\ request_log[b].type = "GET_METADATA"
                   => \A d \in 1..2 :
                          IsFloorOfPercent(
                              answers[b].fields.render_resolution[d],
                              answers[b].fields.resolution[d],
                              request_log[a].value)

\* SET_QUALITY(33), GET_QUALITY and GET_METADATA were answered: the render
\* resolution of 640 x 360 is 211 x 118
C23_Witness ==
    /\ QualityHolds(1, 2) /\ QualityHolds(1, 3)
    /\ request_log[1].value = 33
    /\ request_log[2].type = "GET_QUALITY"
    /\ request_log[3].type = "GET_METADATA"
    /\ answers[3].fields.resolution = <<640, 360>>
    /\ answers[3].fields.render_resolution = <<211, 118>>

(***************************************************************************)
(* Properties of the player                                                *)
(***************************************************************************)
\* C24: a playback thread that caught the EOFError of get_frame ends as after
\* a normal stop: by the time it has ended, the playback event was cleared
\* and the server was asked to stop processing
C24_EndOfStreamIsNormalStop ==
    \A t \in PlaybackThreads :
        (eof[t] /\ show_pc[t] = "ended")
            => after_eof[t].flag_cleared /\ after_eof[t].stop_asked

\* C27: has_index(i) is true exactly when frame i is in memory or among the
\* indexed frames on disk, and false for an index add_frame was never called
\* with while the loaded source/target pair was loaded
C27_HasIndexMemoryOrDisk ==
    \A i \in FrameIndices :
        /\ SessionHasIndex(i) <=>
               (i \in DOMAIN session_memory \/ i \in session_indices)
        /\ i \notin session_history[session] => ~SessionHasIndex(i)

\* C29: load gives a clean session: while a pair is loaded, has_index is
\* true only for frames added under that pair and get_frame hands back no
\* frame that was added under another pair
C29_LoadGivesCleanSession ==
    session # NoPair =>
        \A i \in FrameIndices :
            /\ SessionHasIndex(i) => i \in session_history[session]
            /\ SessionGetFrameResult(i) \in {NoPair, session}

\* C28: when flush() returns the memory map and the size table are empty,
\* the byte counter is 0, the index list is empty and the buffer is not
\* loaded, so that has_index is false and get_frame finds nothing, in memory
\* or on disk, for every index
C28_FlushReleasesSession ==
    [][Flush =>
          /\ memory_buffer' = EmptyDict
          /\ frame_sizes' = EmptyDict
          /\ current_buffer_size_bytes' = 0
          /\ indices' = {}
          /\ ~loaded'
          /\ \A i \in RequestIndices :
                /\ ~HasIndex(i)'
                /\ \A p, r \in BOOLEAN : DirGetFrameResult(i, p, r)' = None
      ]_vars

\* a flush has acted on a buffer that had held frames and written files:
\* the buffer is not loaded, nothing is in memory or listed, the files of the
\* earlier frames are still in the directory
C28_Witness ==
    /\ ~loaded
    /\ files # {}
    /\ added # {}
    /\ memory_buffer = EmptyDict
    /\ indices = {}
    /\ add_pc = "idle"

\* C30: the list _indices refers to changes, and _indices is set to another
\* list, only in a step of the thread that holds _indices_lock; a caller who
\* changes the list get_indices gave it changes neither the internal list nor
\* what has_index answers
C30_IndicesLockedAndCopied ==
    [][/\ (indices_ref' # indices_ref \/ heap'[indices_ref] # heap[indices_ref])
             => /\ indices_lock # Nobody
                /\ index_pc[indices_lock] # Outside
                /\ index_pc'[indices_lock] = Outside
       /\ (\E t \in IndexThreads :
               \/ CallerClear(t)
               \/ \E i \in FrameIndices : CallerAppend(t, i))
             => /\ heap'[indices_ref'] = heap[indices_ref]
                /\ \A i \in FrameIndices : ListHasIndex(i)' <=> ListHasIndex(i)
      ]_vars

\* a caller has changed the list get_indices gave it: it differs from the
\* internal list, which holds an index
C30_Witness ==
    \E t \in IndexThreads :
        /\ held[t] # Nobody
        /\ held[t] # indices_ref
        /\ heap[held[t]] # heap[indices_ref]
        /\ heap[indices_ref] # {}
        /\ indices_lock = Nobody

\* C31: get_frame(i) with remove_earlier set that finds frame i in memory
\* hands back frame i and leaves in memory exactly the entries above i, the
\* files on disk stay; a get_frame(i) without the flag that finds frame i in
\* memory removes entry i and no other
C31_RemoveEarlierEvictsMemoryOnly ==
    [][\A i \in FrameIndices :
          i \in DOMAIN memory_buffer =>
              /\ GetFrameRemoveEarlier(i) =>
                     /\ get_result'.frame = NumberedFrame(i)
                     /\ DOMAIN memory_buffer' =
                            {j \in DOMAIN memory_buffer : j > i}
                     /\ files' = files
              /\ (\E p \in BOOLEAN : GetFrameCall(i, p)) =>
                     /\ DOMAIN memory_buffer' = DOMAIN memory_buffer \ {i}
                     /\ files' = files
      ]_vars

C33_OneInstancePerClass ==
    /\ \A c \in WriterClasses : objects_created[c] <= 1
    /\ \A t, u \in Constructors :
           \A r \in call_results[t], q \in call_results[u] :
               r[1] = q[1] => r[2] = q[2]

\* C34: under fair scheduling, with consumers that keep taking the frames in
\* memory, a call of add_frame that waits for room with a frame that is not
\* larger than the memory limit is woken and stores its frame
C34_BlockedProducerCompletes ==
    (add_pc = "wait" /\ add_arg.size <= buffer_size_bytes)
        ~> (add_pc \notin {"wait", "woken"})

\* C35: the byte counter is the sum of the sizes of the frames in the memory
\* map, and the size table has the keys of the map, whatever add_frame,
\* get_frame, flush and load have done, also after add_frame of an index that
\* was in memory already
C35_CounterIsSumOfSizes ==
    /\ current_buffer_size_bytes = MemoryBytes
    /\ DOMAIN frame_sizes = DOMAIN memory_buffer

\* C36: a get_frame(i) with return_previous that goes to the disk comes back
\* without a picture (None, or a frame whose picture is None) only if no index
\* from 1 to i is listed with a readable file
C36_PreviousInsteadOfNone ==
    [][(/\ GetFrameDisk
        /\ get_arg.return_previous
        /\ get_result'.frame \in {None, EmptyFrame(get_arg.index)})
          => ~ \E j \in 1..get_arg.index :
                   loaded /\ DirHasIndex(j) /\ j \in files
      ]_vars

\* C37: no rewind is lost: when the loop clears the rewind flag, the target
\* the flag carries is the one the loop has taken as its next frame
C37_NoRewindLost ==
    [][LoopRewindClear => event_rewind.tag = next_frame]_vars

\* C38: on a tick of the loop that goes on, processing_delta changes by at
\* most 1; it goes down only if last_added_index is above last_requested_index
\* plus the current miss and processing_delta is above the (updated) average
\* frame skip; it goes up only if that does not hold and last_added_index is
\* below last_requested_index; otherwise it keeps its value
C38_Ahead ==
    /\ last_added_index > last_requested_index + current_frame_miss
    /\ 2 * processing_delta > average_frame_skip'

C39_OneFuturePerIndex ==
    \A i, j \in DOMAIN futures : futures[i] = futures[j] => i = j

C39_NoIndexSubmittedTwice ==
    /\ [](/\ \A f \in Frames : future_state[f] = "running" => f \in processing
          /\ C39_OneFuturePerIndex)
    /\ [][(LoopSubmitBlock /\ futures' # futures) =>
             /\ next_frame \notin processing
             /\ next_frame \notin timeline_frames
             /\ future_state[next_frame] # "running"
             /\ \A k \in DOMAIN futures : futures[k] # next_frame]_vars
    /\ [][\A f \in Frames : ProcessFrame(f) =>
             /\ f \in processing
             /\ f \notin processing']_vars

\* after a rewind the loop stands at the submit block with an index whose
\* transform, submitted earlier in the same run, is still running
C39_Witness ==
    /\ loop_pc = "submit"
    /\ next_frame \in processing
    /\ future_state[next_frame] = "running"
    /\ Len(futures) >= 1

\* C40: no threads of the buffer wait for each other's locks in a circle, and
\* the locks are always taken in one order: the indices lock is taken with
\* nothing held but the buffer lock, and the buffer lock and the status lock
\* are taken with no other lock held
C40_Held(t) == {l \in Locks : rlock_owner[l] = t}

C40_Wanted(t) ==
    IF caller_wait[t] = "notified" THEN "buffer"
    ELSE IF StepOf(t).do = "acquire" /\ caller_wait[t] = "no"
         THEN StepOf(t).lock
    ELSE "none"

C40_Blocked(t) ==
    /\ C40_Wanted(t) \in Locks
    /\ rlock_owner[C40_Wanted(t)] \notin {Nobody, t}

C40_MayHold(l) ==
    CASE l = "buffer" -> {"buffer"}
      [] l = "indices" -> {"buffer", "indices"}
      [] l = "status" -> {"status"}

C40_NoLockDeadlock ==
    /\ [](\A stuck \in SUBSET LockThreads :
             stuck = {} \/ \E t \in stuck :
                 ~(C40_Blocked(t) /\ rlock_owner[C40_Wanted(t)] \in stuck))
    /\ [][\A t \in LockThreads :
             LockAcquire(t) =>
                 C40_Held(t) \subseteq C40_MayHold(StepOf(t).lock)]_vars

\* one thread holds the buffer lock and the indices lock inside it (add_frame,
\* init_indices or load) while a flush waits for the indices lock and a third
\* thread waits for the buffer lock
C40_Witness ==
    \E t, u, v \in LockThreads :
        /\ C40_Held(t) = {"buffer", "indices"}
        /\ caller_op[u] = "flush"
        /\ C40_Blocked(u)
        /\ C40_Wanted(u) = "indices"
        /\ C40_Blocked(v)
        /\ C40_Wanted(v) = "buffer"

=============================================================================
